---- MODULE Spec2Model ----
(***************************************************************************)
(* A model of the SCC library (TechieQuokka/SCC): the adjacency-list graph *)
(* store (src/src/graph.c), the result accessors, dispatcher and           *)
(* condensation builder (src/src/memory.c), the Tarjan engine              *)
(* (src/src/tarjan.c) and the Kosaraju engine (src/unnamed/part_006).      *)
(*                                                                         *)
(* Arrays are functions over 0..n-1, a linked edge list is the sequence of *)
(* its destinations from the head node on, a null handle is NULL.          *)
(* The allocations of graph_add_vertex, graph_add_edge and graph_resize    *)
(* (src/src/utils.c) succeed or fail as their alloc argument says; all     *)
(* others succeed.                                                         *)
(***************************************************************************)
EXTENDS Integers, Sequences, FiniteSets, TLC

VARIABLES
    graph,             \* the client's graph
    result,            \* what scc_find(graph) returned, NULL when not held
    tarjan_result,     \* what scc_find_tarjan(graph) returned
    kosaraju_result,   \* what scc_find_kosaraju(graph) returned
    condensed,         \* the condensation the client holds: its graph and the
                       \* name of the result it was built from, or NULL
    condensed_result,  \* what scc_find(condensed.graph) returned
    last_error,        \* the error slot of src/src/memory.c
    op,                \* the last call: its name and what it returned
    runs,              \* the engine runs that threads have under way on graph
    graphs,            \* the graph_t structs of a client that copies its graph,
                       \* by name; their vertices are addresses into memory
    memory,            \* the vertex objects behind graphs, by address
    blocks,            \* the heap blocks of engine runs that are allocated
    iter,              \* the client's graph_edge_iterator_t on graph, or NULL
    yielded,           \* the edges iter has handed out since it was created
                       \* or reset, as the client collects them
    dfs                \* the graph_dfs call under way on graph, or NULL

vars == <<graph, result, tarjan_result, kosaraju_result, condensed,
          condensed_result, last_error, op, runs, graphs, memory, blocks,
          iter, yielded, dfs>>

---------------------------------------------------------------------------
(* Bounds of the model.                                                    *)

\* the client adds vertices while the graph has fewer than MaxVertices
MaxVertices == 3
\* the client adds edges while the graph has fewer than MaxEdges
MaxEdges == 4
\* the graph-store client builds up to GraphVertices vertices, GraphEdges edges
GraphVertices == 2
GraphEdges == 2
\* the largest capacity the graph-store client asks graph_resize for
MaxCapacity == 4
\* the client that copies its graph builds up to CopyVertices vertices and
\* CopyEdges edges in each graph
CopyVertices == 1
CopyEdges == 1

---------------------------------------------------------------------------
(* Error codes, scc_error_t.                                               *)

SCC_SUCCESS == 0
SCC_ERROR_NULL_POINTER == -1
SCC_ERROR_INVALID_VERTEX == -2
SCC_ERROR_MEMORY_ALLOCATION == -3
SCC_ERROR_GRAPH_EMPTY == -4
SCC_ERROR_INVALID_PARAMETER == -5
SCC_ERROR_VERTEX_EXISTS == -6
SCC_ERROR_EDGE_EXISTS == -7

\* the codes of scc_error_t other than success
ErrorKinds ==
    {SCC_ERROR_NULL_POINTER, SCC_ERROR_INVALID_VERTEX, SCC_ERROR_MEMORY_ALLOCATION,
     SCC_ERROR_GRAPH_EMPTY, SCC_ERROR_INVALID_PARAMETER, SCC_ERROR_VERTEX_EXISTS,
     SCC_ERROR_EDGE_EXISTS}

\* graph_create's capacity when asked for 0
DefaultCapacity == 16

\* scc_recommend_algorithm's thresholds: Kosaraju needs num_vertices >= 1000
\* and density > 1/10
LargeGraphVertices == 1000
DensityDenominator == 10

NULL == [null |-> TRUE]

Min(a, b) == IF a < b THEN a ELSE b

---------------------------------------------------------------------------
(* Graph store, src/src/graph.c.                                           *)

vertex_create(id) ==
    [id |-> id, edges |-> <<>>, out_degree |-> 0,
     index |-> -1, lowlink |-> -1, on_stack |-> FALSE, visited |-> FALSE]

\* returns the handle and the error slot; allocated is the number of slots
\* of the block graph->vertices points to (0 once the block is freed)
graph_create(initial_capacity, le) ==
    IF initial_capacity < 0
    THEN [graph |-> NULL, last_error |-> SCC_ERROR_INVALID_PARAMETER]
    ELSE LET capacity == IF initial_capacity = 0 THEN DefaultCapacity
                         ELSE initial_capacity
         IN [graph |-> [vertices |-> [i \in {} |-> NULL],
                        num_vertices |-> 0,
                        num_edges |-> 0,
                        capacity |-> capacity,
                        allocated |-> capacity],
             last_error |-> le]

\* what the allocator answers to the requests of one call: realloc of the
\* vertex table, malloc of a vertex or an edge
Allocs == [realloc : BOOLEAN, malloc : BOOLEAN]

AllocSucceeds == [realloc |-> TRUE, malloc |-> TRUE]

\* returns the graph, the returned code and the error slot
graph_ensure_capacity(g, required_capacity, le, alloc) ==
    IF g.capacity >= required_capacity
    THEN [graph |-> g, ret |-> SCC_SUCCESS, last_error |-> le]
    ELSE IF ~alloc.realloc
    THEN [graph |-> g, ret |-> SCC_ERROR_MEMORY_ALLOCATION,
          last_error |-> SCC_ERROR_MEMORY_ALLOCATION]
    ELSE [graph |-> [g EXCEPT !.capacity = required_capacity,
                              !.allocated = required_capacity],
          ret |-> SCC_SUCCESS,
          last_error |-> le]

\* returns the graph, the returned id and the error slot; the write of
\* vertices[vertex_id] lands also where the slot lies outside the block
graph_add_vertex_alloc(g, le, alloc) ==
    IF g = NULL
    THEN [graph |-> g, ret |-> -1, last_error |-> SCC_ERROR_NULL_POINTER]
    ELSE LET ensured == IF g.num_vertices >= g.capacity
                        THEN graph_ensure_capacity(g, g.capacity * 2, le, alloc)
                        ELSE [graph |-> g, ret |-> SCC_SUCCESS, last_error |-> le]
             grown == ensured.graph
             vertex_id == grown.num_vertices
         IN IF ensured.ret # SCC_SUCCESS
            THEN [graph |-> grown, ret |-> -1, last_error |-> ensured.last_error]
            ELSE IF ~alloc.malloc
            THEN [graph |-> grown, ret |-> -1,
                  last_error |-> SCC_ERROR_MEMORY_ALLOCATION]
            ELSE [graph |-> [grown EXCEPT
                               !.vertices = [i \in 0..vertex_id |->
                                               IF i = vertex_id
                                               THEN vertex_create(vertex_id)
                                               ELSE grown.vertices[i]],
                               !.num_vertices = @ + 1],
                  ret |-> vertex_id,
                  last_error |-> le]

\* graph_add_vertex when the allocator serves it
graph_add_vertex(g, le) == graph_add_vertex_alloc(g, le, AllocSucceeds)

RECURSIVE edge_list_contains(_, _)
\* the while loop of graph_has_edge over one edge list
edge_list_contains(edges, dest) ==
    IF edges = <<>> THEN FALSE
    ELSE IF Head(edges) = dest THEN TRUE
    ELSE edge_list_contains(Tail(edges), dest)

graph_has_edge(g, src, dest) ==
    IF g = NULL THEN FALSE
    ELSE IF src < 0 \/ src >= g.num_vertices \/ dest < 0 \/ dest >= g.num_vertices
    THEN FALSE
    ELSE edge_list_contains(g.vertices[src].edges, dest)

\* returns the graph, the returned code and the error slot
graph_add_edge_alloc(g, src, dest, le, alloc) ==
    IF g = NULL
    THEN [graph |-> g, ret |-> SCC_ERROR_NULL_POINTER,
          last_error |-> SCC_ERROR_NULL_POINTER]
    ELSE IF src < 0 \/ src >= g.num_vertices \/ dest < 0 \/ dest >= g.num_vertices
    THEN [graph |-> g, ret |-> SCC_ERROR_INVALID_VERTEX,
          last_error |-> SCC_ERROR_INVALID_VERTEX]
    ELSE IF graph_has_edge(g, src, dest)
    THEN [graph |-> g, ret |-> SCC_ERROR_EDGE_EXISTS,
          last_error |-> SCC_ERROR_EDGE_EXISTS]
    ELSE IF ~alloc.malloc
    THEN [graph |-> g, ret |-> SCC_ERROR_MEMORY_ALLOCATION,
          last_error |-> SCC_ERROR_MEMORY_ALLOCATION]
    ELSE [graph |-> [g EXCEPT !.vertices[src].edges = <<dest>> \o @,
                              !.vertices[src].out_degree = @ + 1,
                              !.num_edges = @ + 1],
          ret |-> SCC_SUCCESS,
          last_error |-> le]

\* graph_add_edge when the allocator serves it
graph_add_edge(g, src, dest, le) == graph_add_edge_alloc(g, src, dest, le, AllocSucceeds)

RECURSIVE edge_list_unlink(_, _)
\* the while loop of graph_remove_edge: the list without its first node to dest
edge_list_unlink(edges, dest) ==
    IF edges = <<>> THEN <<>>
    ELSE IF Head(edges) = dest THEN Tail(edges)
    ELSE <<Head(edges)>> \o edge_list_unlink(Tail(edges), dest)

\* graph_remove_edge without the num_edges-- of line 157
graph_remove_edge_keeps_count(g, src, dest, le) ==
    IF g = NULL
    THEN [graph |-> g, ret |-> SCC_ERROR_NULL_POINTER,
          last_error |-> SCC_ERROR_NULL_POINTER]
    ELSE IF src < 0 \/ src >= g.num_vertices \/ dest < 0 \/ dest >= g.num_vertices
    THEN [graph |-> g, ret |-> SCC_ERROR_INVALID_VERTEX,
          last_error |-> SCC_ERROR_INVALID_VERTEX]
    ELSE IF edge_list_contains(g.vertices[src].edges, dest)
    THEN [graph |-> [g EXCEPT !.vertices[src].edges = edge_list_unlink(@, dest),
                              !.vertices[src].out_degree = @ - 1],
          ret |-> SCC_SUCCESS,
          last_error |-> le]
    ELSE [graph |-> g, ret |-> SCC_ERROR_INVALID_PARAMETER, last_error |-> le]

\* returns the graph, the returned code and the error slot
graph_remove_edge(g, src, dest, le) ==
    IF g = NULL
    THEN [graph |-> g, ret |-> SCC_ERROR_NULL_POINTER,
          last_error |-> SCC_ERROR_NULL_POINTER]
    ELSE IF src < 0 \/ src >= g.num_vertices \/ dest < 0 \/ dest >= g.num_vertices
    THEN [graph |-> g, ret |-> SCC_ERROR_INVALID_VERTEX,
          last_error |-> SCC_ERROR_INVALID_VERTEX]
    ELSE IF edge_list_contains(g.vertices[src].edges, dest)
    THEN [graph |-> [g EXCEPT !.vertices[src].edges = edge_list_unlink(@, dest),
                              !.vertices[src].out_degree = @ - 1,
                              !.num_edges = @ - 1],
          ret |-> SCC_SUCCESS,
          last_error |-> le]
    ELSE [graph |-> g, ret |-> SCC_ERROR_INVALID_PARAMETER, last_error |-> le]

graph_get_vertex_count(g) == IF g = NULL THEN -1 ELSE g.num_vertices

graph_get_edge_count(g) == IF g = NULL THEN -1 ELSE g.num_edges

RECURSIVE transpose_add_edges_forward(_, _, _, _)
\* the inner while loop of graph_transpose with graph_add_edge given src and
\* edge->dest in the order of the source graph
transpose_add_edges_forward(t, src, edges, le) ==
    IF edges = <<>> THEN t
    ELSE transpose_add_edges_forward(graph_add_edge(t, src, Head(edges), le).graph,
                                     src, Tail(edges), le)

RECURSIVE transpose_add_edges(_, _, _, _)
\* the inner while loop of graph_transpose: the edges of src, from the head on,
\* each added reversed
transpose_add_edges(t, src, edges, le) ==
    IF edges = <<>> THEN t
    ELSE transpose_add_edges(graph_add_edge(t, Head(edges), src, le).graph,
                             src, Tail(edges), le)

RECURSIVE transpose_all_vertices(_, _, _, _)
\* the outer for loop of graph_transpose over src
transpose_all_vertices(g, t, src, le) ==
    IF src >= g.num_vertices THEN t
    ELSE transpose_all_vertices(
             g, transpose_add_edges(t, src, g.vertices[src].edges, le), src + 1, le)

RECURSIVE graph_add_vertices(_, _, _)
\* the for loops that add count vertices to a fresh graph
graph_add_vertices(g, count, le) ==
    IF g.num_vertices >= count THEN g
    ELSE graph_add_vertices(graph_add_vertex(g, le).graph, count, le)

\* graph is a valid non-null graph
graph_transpose(g, le) ==
    transpose_all_vertices(
        g, graph_add_vertices(graph_create(g.capacity, le).graph, g.num_vertices, le),
        0, le)

\* the graph a graph_t struct denotes whose vertices are addresses: each
\* vertex pointer followed into mem
graph_at(g, mem) ==
    IF g = NULL THEN NULL
    ELSE [g EXCEPT !.vertices = [i \in DOMAIN g.vertices |-> mem[g.vertices[i]]]]

\* the struct and the memory after calls have turned graph_at(g, mem) into
\* changed: a vertex that vertex_create made lies in a block of its own, past
\* the blocks in use, the others are written where they lie
graph_put(g, mem, changed) ==
    LET address(i) == IF i \in DOMAIN g.vertices THEN g.vertices[i]
                      ELSE Len(mem) + 1 + (i - g.num_vertices)
        created == changed.num_vertices - g.num_vertices
    IN [graph |-> [changed EXCEPT
                     !.vertices = [i \in DOMAIN changed.vertices |-> address(i)]],
        memory |-> [a \in 1..(Len(mem) + created) |->
                      IF \E i \in DOMAIN changed.vertices : address(i) = a
                      THEN changed.vertices[CHOOSE i \in DOMAIN changed.vertices :
                                                address(i) = a]
                      ELSE mem[a]]]

RECURSIVE copy_add_edges(_, _, _, _)
\* the inner while loop of graph_copy: the edges of src, from the head on
copy_add_edges(copy, src, edges, le) ==
    IF edges = <<>> THEN copy
    ELSE copy_add_edges(graph_add_edge(copy, src, Head(edges), le).graph,
                        src, Tail(edges), le)

RECURSIVE copy_all_vertices(_, _, _, _)
\* the second for loop of graph_copy over src
copy_all_vertices(g, copy, src, le) ==
    IF src >= g.num_vertices THEN copy
    ELSE copy_all_vertices(
             g, copy_add_edges(copy, src, g.vertices[src].edges, le), src + 1, le)

\* graph_copy with the struct sharing the vertex objects of its source
graph_copy_shares_vertices(g, mem, le) ==
    IF g = NULL
    THEN [graph |-> NULL, memory |-> mem, last_error |-> SCC_ERROR_NULL_POINTER]
    ELSE [graph |-> g, memory |-> mem, last_error |-> le]

\* g is a struct whose vertices are addresses into mem; returns the struct of
\* the copy, the memory and the error slot
graph_copy(g, mem, le) ==
    IF g = NULL
    THEN [graph |-> NULL, memory |-> mem, last_error |-> SCC_ERROR_NULL_POINTER]
    ELSE LET source == graph_at(g, mem)
             created == graph_create(source.capacity, le).graph
             copied == copy_all_vertices(
                           source,
                           graph_add_vertices(created, source.num_vertices, le),
                           0, le)
             put == graph_put(created, mem, copied)
         IN [graph |-> put.graph, memory |-> put.memory, last_error |-> le]

\* returns the returned value and the error slot
graph_get_out_degree(g, vertex, le) ==
    IF g = NULL \/ vertex < 0 \/ vertex >= g.num_vertices
    THEN [ret |-> -1, last_error |-> SCC_ERROR_INVALID_VERTEX]
    ELSE [ret |-> g.vertices[vertex].out_degree, last_error |-> le]

RECURSIVE edge_count_from(_, _)
\* edge_count of graph_is_valid: the nodes of the edge lists of vertices i..
edge_count_from(g, i) ==
    IF i >= g.num_vertices THEN 0
    ELSE Len(g.vertices[i].edges) + edge_count_from(g, i + 1)

graph_is_valid(g) ==
    IF g = NULL THEN FALSE
    ELSE IF g.num_vertices < 0 \/ g.num_edges < 0 THEN FALSE
    ELSE IF g.num_vertices > g.capacity THEN FALSE
    ELSE /\ \A i \in 0..(g.num_vertices - 1) :
               /\ g.vertices[i].id = i
               /\ \A k \in 1..Len(g.vertices[i].edges) :
                     /\ g.vertices[i].edges[k] >= 0
                     /\ g.vertices[i].edges[k] < g.num_vertices
               /\ g.vertices[i].out_degree = Len(g.vertices[i].edges)
         /\ edge_count_from(g, 0) = g.num_edges

---------------------------------------------------------------------------
(* Graph utilities, src/src/utils.c.                                       *)

\* returns the returned code and the error slot, which no path sets; the
\* checks after graph_is_valid repeat what it has checked
graph_verify_integrity(g, le) ==
    IF g = NULL THEN [ret |-> SCC_ERROR_NULL_POINTER, last_error |-> le]
    ELSE IF ~graph_is_valid(g)
    THEN [ret |-> SCC_ERROR_INVALID_PARAMETER, last_error |-> le]
    ELSE [ret |-> SCC_SUCCESS, last_error |-> le]

\* returns the graph, the returned code and the error slot. realloc to no
\* slots (new_capacity = 0) either frees the block and returns a null
\* pointer (alloc.realloc false), which the code takes for a failure, or
\* returns a block of no slots
graph_resize(g, new_capacity, le, alloc) ==
    IF g = NULL
    THEN [graph |-> g, ret |-> SCC_ERROR_INVALID_PARAMETER,
          last_error |-> SCC_ERROR_INVALID_PARAMETER]
    ELSE IF new_capacity < g.num_vertices
    THEN [graph |-> g, ret |-> SCC_ERROR_INVALID_PARAMETER,
          last_error |-> SCC_ERROR_INVALID_PARAMETER]
    ELSE IF new_capacity = g.capacity
    THEN [graph |-> g, ret |-> SCC_SUCCESS, last_error |-> le]
    ELSE IF ~alloc.realloc
    THEN [graph |-> IF new_capacity = 0 THEN [g EXCEPT !.allocated = 0] ELSE g,
          ret |-> SCC_ERROR_MEMORY_ALLOCATION,
          last_error |-> SCC_ERROR_MEMORY_ALLOCATION]
    ELSE [graph |-> [g EXCEPT !.capacity = new_capacity,
                              !.allocated = new_capacity],
          ret |-> SCC_SUCCESS,
          last_error |-> le]

---------------------------------------------------------------------------
(* The edge iterator, src/src/utils.c. current_edge points into the edge   *)
(* list of current_vertex: it is modelled by the rest of that list from    *)
(* the edge it points at, <<>> for the null pointer.                       *)

RECURSIVE iterator_first_edge(_, _)
\* the loop "find the first edge" of graph_edge_iterator_create and
\* graph_edge_iterator_reset, from current_vertex on
iterator_first_edge(g, current_vertex) ==
    IF current_vertex < g.num_vertices
    THEN IF g.vertices[current_vertex].edges # <<>>
         THEN [current_vertex |-> current_vertex,
               current_edge |-> g.vertices[current_vertex].edges]
         ELSE iterator_first_edge(g, current_vertex + 1)
    ELSE [current_vertex |-> current_vertex, current_edge |-> <<>>]

\* returns the iterator and the error slot
graph_edge_iterator_create(g, le, alloc) ==
    IF g = NULL
    THEN [iter |-> NULL, last_error |-> SCC_ERROR_NULL_POINTER]
    ELSE IF ~alloc.malloc
    THEN [iter |-> NULL, last_error |-> SCC_ERROR_MEMORY_ALLOCATION]
    ELSE [iter |-> iterator_first_edge(g, 0), last_error |-> le]

\* the loop of graph_edge_iterator_next with one step for as many as it takes
iterator_advance_once(g, it) ==
    IF it.current_edge = <<>> /\ it.current_vertex < g.num_vertices - 1
    THEN [current_vertex |-> it.current_vertex + 1,
          current_edge |-> g.vertices[it.current_vertex + 1].edges]
    ELSE it

RECURSIVE iterator_advance(_, _)
\* the loop of graph_edge_iterator_next: on to the next vertex with an edge
iterator_advance(g, it) ==
    IF it.current_edge = <<>> /\ it.current_vertex < g.num_vertices - 1
    THEN iterator_advance(g, [current_vertex |-> it.current_vertex + 1,
                              current_edge |-> g.vertices[it.current_vertex + 1].edges])
    ELSE it

\* g is iter->graph; out tells whether src and dest are both non-null.
\* Returns the return value, the iterator and what was written to *src, *dest.
graph_edge_iterator_next(g, it, out) ==
    IF it = NULL \/ ~out
    THEN [ret |-> FALSE, iter |-> it, written |-> <<>>]
    ELSE IF it.current_vertex >= g.num_vertices \/ it.current_edge = <<>>
    THEN [ret |-> FALSE, iter |-> it, written |-> <<>>]
    ELSE [ret |-> TRUE,
          iter |-> iterator_advance(g, [it EXCEPT !.current_edge = Tail(@)]),
          written |-> <<<<it.current_vertex, Head(it.current_edge)>>>>]

graph_edge_iterator_reset(g, it) ==
    IF it = NULL THEN it ELSE iterator_first_edge(g, 0)

---------------------------------------------------------------------------
(* Result statistics: the block that closes both engines.                  *)

RECURSIVE largest_size(_, _, _)
largest_size(res, i, largest) ==
    IF i >= res.num_components THEN largest
    ELSE largest_size(res, i + 1,
                      IF res.components[i].size > largest
                      THEN res.components[i].size ELSE largest)

RECURSIVE smallest_size(_, _, _)
smallest_size(res, i, smallest) ==
    IF i >= res.num_components THEN smallest
    ELSE smallest_size(res, i + 1,
                       IF res.components[i].size < smallest
                       THEN res.components[i].size ELSE smallest)

RECURSIVE total_size(_, _)
total_size(res, i) ==
    IF i >= res.num_components THEN 0
    ELSE res.components[i].size + total_size(res, i + 1)

\* the result with its three statistics set; the average is kept as the
\* quotient total / count
result_statistics(res, num_vertices) ==
    [components |-> res.components,
     num_components |-> res.num_components,
     vertex_to_component |-> res.vertex_to_component,
     largest_component_size |-> largest_size(res, 0, 0),
     smallest_component_size |->
         IF res.num_components > 0 THEN smallest_size(res, 0, num_vertices + 1) ELSE 0,
     average_component_size |->
         IF res.num_components > 0
         THEN [total |-> total_size(res, 0), count |-> res.num_components]
         ELSE [total |-> 0, count |-> 1]]

---------------------------------------------------------------------------
(* Kosaraju engine, src/unnamed/part_006.                                  *)

\* num_vertices > 0
kosaraju_state_create(num_vertices) ==
    [finish_order |-> <<>>,
     finish_index |-> 0,
     finish_capacity |-> num_vertices,
     transpose_graph |-> NULL,
     current_component |-> 0,
     visited_first_pass |-> [i \in 0..(num_vertices - 1) |-> FALSE],
     visited_second_pass |-> [i \in 0..(num_vertices - 1) |-> FALSE],
     result |-> [components |-> [i \in 0..(num_vertices - 1) |->
                                   [vertices |-> <<>>, size |-> 0,
                                    capacity |-> num_vertices]],
                 vertex_to_component |-> [i \in 0..(num_vertices - 1) |-> -1],
                 num_components |-> 0]]

RECURSIVE kosaraju_dfs_first_recursive(_, _, _)
RECURSIVE kosaraju_dfs_first_edges(_, _, _)

\* the while loop of kosaraju_dfs_first_recursive over the rest of an edge list
kosaraju_dfs_first_edges(g, edges, state) ==
    IF edges = <<>> THEN state
    ELSE kosaraju_dfs_first_edges(
             g, Tail(edges),
             IF ~state.visited_first_pass[Head(edges)]
             THEN kosaraju_dfs_first_recursive(g, Head(edges), state)
             ELSE state)

\* finish_order holds the written cells, finish_order[i] of the code is
\* finish_order[i + 1] here
kosaraju_dfs_first_recursive(g, vertex, state) ==
    LET entered == [state EXCEPT !.visited_first_pass[vertex] = TRUE]
        explored == kosaraju_dfs_first_edges(g, g.vertices[vertex].edges, entered)
    IN [explored EXCEPT !.finish_order = Append(@, vertex),
                        !.finish_index = @ + 1]

RECURSIVE kosaraju_dfs_second_recursive(_, _, _)
RECURSIVE kosaraju_dfs_second_edges(_, _, _)

\* the while loop of kosaraju_dfs_second_recursive over the rest of an edge list
kosaraju_dfs_second_edges(g, edges, state) ==
    IF edges = <<>> THEN state
    ELSE kosaraju_dfs_second_edges(
             g, Tail(edges),
             IF ~state.visited_second_pass[Head(edges)]
             THEN kosaraju_dfs_second_recursive(g, Head(edges), state)
             ELSE state)

kosaraju_dfs_second_recursive(g, vertex, state) ==
    LET c == state.current_component
        entered == [state EXCEPT
                      !.visited_second_pass[vertex] = TRUE,
                      !.result.components[c].vertices = Append(@, vertex),
                      !.result.components[c].size = @ + 1,
                      !.result.vertex_to_component[vertex] = c]
    IN kosaraju_dfs_second_edges(g, g.vertices[vertex].edges, entered)

RECURSIVE kosaraju_first_pass(_, _, _)
\* step 1 of scc_kosaraju_internal: for (i = 0; i < num_vertices; i++)
kosaraju_first_pass(g, i, state) ==
    IF i >= g.num_vertices THEN state
    ELSE kosaraju_first_pass(
             g, i + 1,
             IF ~state.visited_first_pass[i]
             THEN kosaraju_dfs_first_recursive(g, i, state)
             ELSE state)

RECURSIVE kosaraju_second_pass_forward(_, _)
\* step 3 as it must not be: the roots taken in finish order, first finished
\* first, where the code takes them last finished first
kosaraju_second_pass_forward(i, state) ==
    IF i < 0 THEN state
    ELSE LET vertex == state.finish_order[state.finish_index - i]
         IN kosaraju_second_pass_forward(
                i - 1,
                IF ~state.visited_second_pass[vertex]
                THEN LET grown == kosaraju_dfs_second_recursive(
                                      state.transpose_graph, vertex, state)
                     IN [grown EXCEPT !.current_component = @ + 1,
                                      !.result.num_components = @ + 1]
                ELSE state)

RECURSIVE kosaraju_second_pass(_, _)
\* step 3 of scc_kosaraju_internal: for (i = finish_index - 1; i >= 0; i--)
kosaraju_second_pass(i, state) ==
    IF i < 0 THEN state
    ELSE LET vertex == state.finish_order[i + 1]
         IN kosaraju_second_pass(
                i - 1,
                IF ~state.visited_second_pass[vertex]
                THEN LET grown == kosaraju_dfs_second_recursive(
                                      state.transpose_graph, vertex, state)
                     IN [grown EXCEPT !.current_component = @ + 1,
                                      !.result.num_components = @ + 1]
                ELSE state)

\* scc_kosaraju_internal with step 3 run on the graph for its transpose
scc_kosaraju_internal_untransposed(g, state, le) ==
    IF g = NULL
    THEN [result |-> NULL, last_error |-> SCC_ERROR_NULL_POINTER]
    ELSE IF graph_get_vertex_count(g) <= 0
    THEN [result |-> NULL, last_error |-> SCC_ERROR_GRAPH_EMPTY]
    ELSE LET first == kosaraju_first_pass(g, 0, state)
             transposed == [first EXCEPT !.transpose_graph = g]
             second == kosaraju_second_pass(transposed.finish_index - 1, transposed)
         IN [result |-> result_statistics(second.result, g.num_vertices),
             last_error |-> le]

\* returns the result handle and the error slot; state is non-null
scc_kosaraju_internal(g, state, le) ==
    IF g = NULL
    THEN [result |-> NULL, last_error |-> SCC_ERROR_NULL_POINTER]
    ELSE IF graph_get_vertex_count(g) <= 0
    THEN [result |-> NULL, last_error |-> SCC_ERROR_GRAPH_EMPTY]
    ELSE LET first == kosaraju_first_pass(g, 0, state)
             transposed == [first EXCEPT !.transpose_graph = graph_transpose(g, le)]
             second == kosaraju_second_pass(transposed.finish_index - 1, transposed)
         IN [result |-> result_statistics(second.result, g.num_vertices),
             last_error |-> le]

\* returns the result handle and the error slot
scc_find_kosaraju(g, le) ==
    IF g = NULL
    THEN [result |-> NULL, last_error |-> SCC_ERROR_NULL_POINTER]
    ELSE IF graph_get_vertex_count(g) <= 0
    THEN [result |-> NULL, last_error |-> SCC_ERROR_GRAPH_EMPTY]
    ELSE scc_kosaraju_internal(g, kosaraju_state_create(g.num_vertices), le)

---------------------------------------------------------------------------
(* Tarjan engine, src/src/tarjan.c.                                        *)
(* The engine keeps index, lowlink and on_stack in the vertices of the     *)
(* graph it is given, so its operators return the graph with the state.    *)

\* num_vertices > 0; heap is what malloc left in the cells of
\* vertex_to_component, which the engine does not initialise
tarjan_state_create(num_vertices, heap) ==
    [stack |-> <<>>,
     stack_top |-> 0,
     stack_capacity |-> num_vertices,
     current_index |-> 0,
     current_component |-> 0,
     vertices_processed |-> [i \in 0..(num_vertices - 1) |-> FALSE],
     result |-> [components |-> [i \in 0..(num_vertices - 1) |->
                                   [vertices |-> <<>>, size |-> 0,
                                    capacity |-> num_vertices]],
                 vertex_to_component |-> heap,
                 num_components |-> 0]]

tarjan_ensure_stack_capacity(state, required_capacity) ==
    IF state.stack_capacity >= required_capacity THEN state
    ELSE [state EXCEPT !.stack_capacity = required_capacity]

\* stack holds the cells below stack_top
tarjan_stack_push(state, vertex) ==
    LET grown == IF state.stack_top >= state.stack_capacity
                 THEN tarjan_ensure_stack_capacity(state, state.stack_capacity * 2)
                 ELSE state
    IN [grown EXCEPT !.stack = Append(@, vertex), !.stack_top = @ + 1]

\* returns the state and the popped vertex, -1 from an empty stack
tarjan_stack_pop(state) ==
    IF state.stack_top = 0
    THEN [state |-> state, ret |-> -1]
    ELSE [state |-> [state EXCEPT !.stack = SubSeq(@, 1, Len(@) - 1),
                                  !.stack_top = @ - 1],
          ret |-> state.stack[state.stack_top]]

RECURSIVE tarjan_extract_loop(_, _)
\* the do-while loop of tarjan_extract_scc; no vertex field is touched
tarjan_extract_loop(state, root) ==
    LET popped == tarjan_stack_pop(state)
        w == popped.ret
        c == state.current_component
        added == [popped.state EXCEPT
                    !.result.components[c].vertices = Append(@, w),
                    !.result.components[c].size = @ + 1,
                    !.result.vertex_to_component[w] = c]
    IN IF w # root THEN tarjan_extract_loop(added, root) ELSE added

tarjan_extract_scc(state, root) ==
    [tarjan_extract_loop(state, root) EXCEPT !.current_component = @ + 1,
                                             !.result.num_components = @ + 1]

RECURSIVE tarjan_dfs_recursive(_, _, _)
RECURSIVE tarjan_dfs_edges(_, _, _, _)

\* the while loop of tarjan_dfs_recursive at vertex v over the rest of its list
tarjan_dfs_edges(g, v, state, edges) ==
    IF edges = <<>> THEN [graph |-> g, state |-> state]
    ELSE LET w == Head(edges)
         IN IF g.vertices[w].index = -1
            THEN LET sub == tarjan_dfs_recursive(g, w, state)
                 IN tarjan_dfs_edges(
                        [sub.graph EXCEPT !.vertices[v].lowlink =
                                             Min(@, sub.graph.vertices[w].lowlink)],
                        v, sub.state, Tail(edges))
            ELSE IF g.vertices[w].on_stack
            THEN tarjan_dfs_edges(
                     [g EXCEPT !.vertices[v].lowlink = Min(@, g.vertices[w].index)],
                     v, state, Tail(edges))
            ELSE tarjan_dfs_edges(g, v, state, Tail(edges))

\* returns the graph and the state
tarjan_dfs_recursive(g, v, state) ==
    LET entered == [g EXCEPT !.vertices[v].index = state.current_index,
                             !.vertices[v].lowlink = state.current_index,
                             !.vertices[v].on_stack = TRUE]
        pushed == tarjan_stack_push([state EXCEPT !.current_index = @ + 1], v)
        explored == tarjan_dfs_edges(entered, v, pushed, entered.vertices[v].edges)
    IN IF explored.graph.vertices[v].lowlink = explored.graph.vertices[v].index
       THEN [graph |-> explored.graph,
             state |-> tarjan_extract_scc(explored.state, v)]
       ELSE explored

\* the first for loop of scc_tarjan_internal
tarjan_reset_fields(g) ==
    [g EXCEPT !.vertices = [i \in DOMAIN g.vertices |->
                              [g.vertices[i] EXCEPT !.index = -1,
                                                    !.lowlink = -1,
                                                    !.on_stack = FALSE]]]

RECURSIVE tarjan_all_vertices(_, _, _)
\* the second for loop of scc_tarjan_internal
tarjan_all_vertices(g, i, state) ==
    IF i >= g.num_vertices THEN [graph |-> g, state |-> state]
    ELSE IF g.vertices[i].index = -1
    THEN LET sub == tarjan_dfs_recursive(g, i, state)
         IN tarjan_all_vertices(sub.graph, i + 1, sub.state)
    ELSE tarjan_all_vertices(g, i + 1, state)

\* returns the graph, the result handle and the error slot; state is non-null
scc_tarjan_internal(g, state, le) ==
    IF g = NULL
    THEN [graph |-> g, result |-> NULL, last_error |-> SCC_ERROR_NULL_POINTER]
    ELSE IF graph_get_vertex_count(g) <= 0
    THEN [graph |-> g, result |-> NULL, last_error |-> SCC_ERROR_GRAPH_EMPTY]
    ELSE LET run == tarjan_all_vertices(tarjan_reset_fields(g), 0, state)
         IN [graph |-> run.graph,
             result |-> result_statistics(run.state.result, g.num_vertices),
             last_error |-> le]

\* returns the graph, the result handle and the error slot
scc_find_tarjan(g, heap, le) ==
    IF g = NULL
    THEN [graph |-> g, result |-> NULL, last_error |-> SCC_ERROR_NULL_POINTER]
    ELSE IF graph_get_vertex_count(g) <= 0
    THEN [graph |-> g, result |-> NULL, last_error |-> SCC_ERROR_GRAPH_EMPTY]
    ELSE scc_tarjan_internal(g, tarjan_state_create(g.num_vertices, heap), le)

---------------------------------------------------------------------------
(* The heap blocks of an engine run. A block is named by the field that     *)
(* points at it and, for components[i].vertices, by i; the transpose graph  *)
(* with its vertices and edges counts as one block, which graph_destroy     *)
(* frees as a whole. failing is the number of the allocation that fails in  *)
(* the run, in the order of the calls, 0 when none does.                    *)

\* the blocks of components[i].vertices for first <= i < beyond
component_blocks(first, beyond) ==
    {<<"components[i].vertices", i>> : i \in first..(beyond - 1)}

\* the allocations of tarjan_state_create in the order of its calls
tarjan_state_allocations(num_vertices) ==
    <<<<"state", 0>>, <<"stack", 0>>, <<"vertices_processed", 0>>, <<"result", 0>>,
      <<"components", 0>>, <<"vertex_to_component", 0>>>>
    \o [i \in 1..num_vertices |-> <<"components[i].vertices", i - 1>>]

\* the allocations of kosaraju_state_create in the order of its calls
kosaraju_state_allocations(num_vertices) ==
    <<<<"state", 0>>, <<"finish_order", 0>>, <<"visited_first_pass", 0>>,
      <<"visited_second_pass", 0>>, <<"result", 0>>,
      <<"components", 0>>, <<"vertex_to_component", 0>>>>
    \o [i \in 1..num_vertices |-> <<"components[i].vertices", i - 1>>]

\* what a state_create call holds when it returns: every block when no
\* allocation fails; on a failure each branch frees the blocks of the calls
\* before it, and the block of the call it is tested together with
state_create_blocks(allocations, failing) ==
    LET made == {allocations[k] : k \in 1..Len(allocations)}
        freed == IF failing \in 1..Len(allocations) THEN made ELSE {}
    IN made \ freed

\* the blocks tarjan_state_destroy frees: those of the result when it is
\* still attached, components[i].vertices for i < num_components only
tarjan_state_destroy(attached, num_components) ==
    (IF attached
     THEN component_blocks(0, num_components)
            \cup {<<"components", 0>>, <<"vertex_to_component", 0>>, <<"result", 0>>}
     ELSE {})
    \cup {<<"vertices_processed", 0>>, <<"stack", 0>>, <<"state", 0>>}

\* the blocks kosaraju_state_destroy frees
kosaraju_state_destroy(attached, num_components) ==
    (IF attached
     THEN component_blocks(0, num_components)
            \cup {<<"components", 0>>, <<"vertex_to_component", 0>>, <<"result", 0>>}
     ELSE {})
    \cup {<<"transpose_graph", 0>>}
    \cup {<<"visited_second_pass", 0>>, <<"visited_first_pass", 0>>,
          <<"finish_order", 0>>, <<"state", 0>>}

\* the blocks scc_result_destroy frees
scc_result_destroy(res) ==
    IF res = NULL THEN {}
    ELSE component_blocks(0, res.num_components)
           \cup {<<"components", 0>>, <<"vertex_to_component", 0>>, <<"result", 0>>}

\* scc_find_tarjan with its heap blocks: returns the graph, the result
\* handle, the error slot and the blocks still allocated at the return
scc_find_tarjan_blocks(g, heap, le, failing) ==
    IF g = NULL \/ graph_get_vertex_count(g) <= 0
    THEN scc_find_tarjan(g, heap, le) @@ [blocks |-> {}]
    ELSE LET allocations == tarjan_state_allocations(g.num_vertices)
             created == state_create_blocks(allocations, failing)
         IN IF failing \in 1..Len(allocations)
            THEN [graph |-> g, result |-> NULL,
                  last_error |-> SCC_ERROR_MEMORY_ALLOCATION, blocks |-> created]
            ELSE LET r == scc_find_tarjan(g, heap, le)
                 IN r @@ [blocks |-> created
                                      \ tarjan_state_destroy(r.result = NULL, 0)]

\* scc_find_kosaraju with its heap blocks; the allocation after those of
\* kosaraju_state_create is graph_transpose
scc_find_kosaraju_blocks(g, le, failing) ==
    IF g = NULL \/ graph_get_vertex_count(g) <= 0
    THEN scc_find_kosaraju(g, le) @@ [blocks |-> {}]
    ELSE LET allocations == kosaraju_state_allocations(g.num_vertices)
             created == state_create_blocks(allocations, failing)
         IN IF failing \in 1..Len(allocations)
            THEN [result |-> NULL, last_error |-> SCC_ERROR_MEMORY_ALLOCATION,
                  blocks |-> created]
            ELSE IF failing = Len(allocations) + 1
            THEN [result |-> NULL, last_error |-> SCC_ERROR_MEMORY_ALLOCATION,
                  blocks |-> created \ kosaraju_state_destroy(TRUE, 0)]
            ELSE LET r == scc_find_kosaraju(g, le)
                 IN r @@ [blocks |-> (created \cup {<<"transpose_graph", 0>>})
                                      \ kosaraju_state_destroy(FALSE, 0)]

---------------------------------------------------------------------------
(* Dispatcher and condensation, src/src/memory.c.                          *)

\* scc_recommend_algorithm with density >= 0.1 for density > 0.1
scc_recommend_algorithm_from_tenth(g) ==
    IF g = NULL THEN "SCC_ALGORITHM_TARJAN"
    ELSE IF graph_get_vertex_count(g) = 0 THEN "SCC_ALGORITHM_TARJAN"
    ELSE IF graph_get_vertex_count(g) < LargeGraphVertices THEN "SCC_ALGORITHM_TARJAN"
    ELSE IF graph_get_edge_count(g) * DensityDenominator
              >= graph_get_vertex_count(g) * graph_get_vertex_count(g)
    THEN "SCC_ALGORITHM_KOSARAJU"
    ELSE "SCC_ALGORITHM_TARJAN"

\* density > 0.1 with density = num_edges / num_vertices^2, in integers: the
\* quotient of the two doubles is the double nearest to the exact quotient,
\* which is the double 0.1 when the quotient is 1/10 and a greater one when
\* it is above 1/10 (two int counts with num_edges <= num_vertices^2 differ
\* from 1/10 by far more than the spacing of doubles there)
scc_recommend_algorithm(g) ==
    IF g = NULL THEN "SCC_ALGORITHM_TARJAN"
    ELSE IF graph_get_vertex_count(g) = 0 THEN "SCC_ALGORITHM_TARJAN"
    ELSE IF graph_get_vertex_count(g) < LargeGraphVertices THEN "SCC_ALGORITHM_TARJAN"
    ELSE IF graph_get_edge_count(g) * DensityDenominator
              > graph_get_vertex_count(g) * graph_get_vertex_count(g)
    THEN "SCC_ALGORITHM_KOSARAJU"
    ELSE "SCC_ALGORITHM_TARJAN"

\* returns the graph, the result handle and the error slot
scc_find(g, heap, le) ==
    IF g = NULL
    THEN [graph |-> g, result |-> NULL, last_error |-> SCC_ERROR_NULL_POINTER]
    ELSE IF scc_recommend_algorithm(g) = "SCC_ALGORITHM_KOSARAJU"
    THEN [graph |-> g,
          result |-> scc_find_kosaraju(g, le).result,
          last_error |-> scc_find_kosaraju(g, le).last_error]
    ELSE scc_find_tarjan(g, heap, le)

\* returns the graph, the answer and the error slot
scc_is_strongly_connected(g, heap, le) ==
    IF g = NULL
    THEN [graph |-> g, ret |-> FALSE, last_error |-> SCC_ERROR_NULL_POINTER]
    ELSE LET found == scc_find(g, heap, le)
         IN [graph |-> found.graph,
             ret |-> IF found.result = NULL THEN FALSE
                     ELSE found.result.num_components = 1,
             last_error |-> found.last_error]

\* the result accessors return the returned value and the error slot
scc_get_component_count(res, le) ==
    IF res = NULL THEN [ret |-> -1, last_error |-> SCC_ERROR_NULL_POINTER]
    ELSE [ret |-> res.num_components, last_error |-> le]

scc_get_component_size(res, component_id, le) ==
    IF res = NULL \/ component_id < 0 \/ component_id >= res.num_components
    THEN [ret |-> -1, last_error |-> SCC_ERROR_INVALID_PARAMETER]
    ELSE [ret |-> res.components[component_id].size, last_error |-> le]

\* vertex has no upper bound in the code: past the end of vertex_to_component
\* the read is outside the array and returns what lies beyond it
scc_get_vertex_component(res, vertex, le, beyond) ==
    IF res = NULL
    THEN [ret |-> -1, last_error |-> SCC_ERROR_NULL_POINTER, outside |-> FALSE]
    ELSE IF vertex < 0
    THEN [ret |-> -1, last_error |-> SCC_ERROR_INVALID_VERTEX, outside |-> FALSE]
    ELSE IF vertex \in DOMAIN res.vertex_to_component
    THEN [ret |-> res.vertex_to_component[vertex], last_error |-> le,
          outside |-> FALSE]
    ELSE [ret |-> beyond, last_error |-> le, outside |-> TRUE]

RECURSIVE condensation_add_edges(_, _, _, _)
\* the inner while loop of scc_build_condensation_graph at a vertex of
\* component src_comp; run is the condensed graph (NULL once an add failed)
\* and the error slot
condensation_add_edges(run, scc, src_comp, edges) ==
    IF edges = <<>> \/ run.graph = NULL THEN run
    ELSE LET dest_comp == scc.vertex_to_component[Head(edges)]
         IN IF src_comp # dest_comp /\ ~graph_has_edge(run.graph, src_comp, dest_comp)
            THEN LET added == graph_add_edge(run.graph, src_comp, dest_comp,
                                             run.last_error)
                 IN IF added.ret # SCC_SUCCESS
                    THEN [graph |-> NULL, last_error |-> added.last_error]
                    ELSE condensation_add_edges(
                             [graph |-> added.graph, last_error |-> added.last_error],
                             scc, src_comp, Tail(edges))
            ELSE condensation_add_edges(run, scc, src_comp, Tail(edges))

RECURSIVE condensation_all_vertices(_, _, _, _)
\* the outer for loop of scc_build_condensation_graph over v
condensation_all_vertices(g, scc, run, v) ==
    IF v >= graph_get_vertex_count(g) \/ run.graph = NULL THEN run
    ELSE condensation_all_vertices(
             g, scc,
             condensation_add_edges(run, scc, scc.vertex_to_component[v],
                                    g.vertices[v].edges),
             v + 1)

\* returns the condensed graph (or NULL) and the error slot
scc_build_condensation_graph(g, scc, le) ==
    IF g = NULL \/ scc = NULL
    THEN [graph |-> NULL, last_error |-> SCC_ERROR_NULL_POINTER]
    ELSE LET created == graph_create(scc.num_components, le)
         IN IF created.graph = NULL THEN created
            ELSE condensation_all_vertices(
                     g, scc,
                     [graph |-> graph_add_vertices(created.graph, scc.num_components, le),
                      last_error |-> le],
                     0)

---------------------------------------------------------------------------
(* The client: one action per call of the public interface.                *)
(* A client mutates its graph only while it holds no result of it, holds   *)
(* the result of scc_find or those of the two engines, and destroys what   *)
(* it built in reverse order.                                              *)

\* what malloc can have left in one int cell of a result for n vertices:
\* a component id in range, or a value below or above the range
GarbageInts(n) == -1..n

\* the vertices whose vertex_to_component cell the Tarjan engine never writes
tarjan_unwritten(g) ==
    IF g.num_vertices <= 0 THEN {}
    ELSE LET res == scc_find_tarjan(g, [i \in 0..(g.num_vertices - 1) |-> 0], 0).result
         IN {v \in 0..(g.num_vertices - 1) :
               \A c \in 0..(res.num_components - 1) :
                  \A k \in 1..res.components[c].size : res.components[c].vertices[k] # v}

\* the heaps a run on g can meet, told apart by the cells the run leaves
\* unwritten (the cells it writes are overwritten whatever they held)
Heaps(g) ==
    {[i \in 0..(g.num_vertices - 1) |-> IF i \in DOMAIN fill THEN fill[i] ELSE 0] :
        fill \in [tarjan_unwritten(g) -> GarbageInts(g.num_vertices)]}

\* the graph of test_tarjan_complex_graph: 8 vertices, edges added in the
\* order of the test, each at the head of its list
ComplexGraphEdges ==
    <<<<0, 1>>, <<1, 2>>, <<2, 0>>, <<3, 4>>, <<4, 3>>, <<5, 6>>, <<6, 7>>,
      <<7, 5>>, <<2, 3>>, <<4, 5>>, <<1, 6>>>>

RECURSIVE graph_add_edges(_, _, _)
graph_add_edges(g, edges, le) ==
    IF edges = <<>> THEN g
    ELSE graph_add_edges(graph_add_edge(g, Head(edges)[1], Head(edges)[2], le).graph,
                         Tail(edges), le)

ComplexGraph ==
    graph_add_edges(
        graph_add_vertices(graph_create(8, SCC_SUCCESS).graph, 8, SCC_SUCCESS),
        ComplexGraphEdges, SCC_SUCCESS)

\* the capacity the client's graphs are created with
InitialCapacity == 1

RECURSIVE EdgeLists(_, _)
\* the edge lists of one vertex: at most k distinct destinations, in any order
EdgeLists(dests, k) ==
    IF k = 0 THEN {<<>>}
    ELSE LET shorter == EdgeLists(dests, k - 1)
         IN shorter \cup
            {Append(l, d) : <<l, d>> \in
                {<<m, e>> \in {t \in shorter : Len(t) = k - 1} \X dests :
                    \A i \in 1..Len(m) : m[i] # e}}

RECURSIVE Adjacencies(_, _, _)
\* the edge lists of the vertices v..n-1, with at most k edges together
Adjacencies(n, v, k) ==
    IF v >= n THEN {<<>>}
    ELSE UNION {{<<l>> \o rest : rest \in Adjacencies(n, v + 1, k - Len(l))} :
                  l \in EdgeLists(0..(n - 1), k)}

RECURSIVE Insertions(_, _)
\* an order of graph_add_edge calls that leaves the edge lists adjacency
\* (lists[v + 1] is the list of vertex v): each list is filled from its tail,
\* as graph_add_edge puts a new edge at the head
Insertions(lists, v) ==
    IF v >= Len(lists) THEN <<>>
    ELSE [i \in 1..Len(lists[v + 1]) |->
             <<v, lists[v + 1][Len(lists[v + 1]) + 1 - i]>>]
         \o Insertions(lists, v + 1)

\* the graphs a client builds with graph_create, graph_add_vertex and
\* graph_add_edge: up to max_vertices vertices and max_edges edges
GraphsUpTo(max_vertices, max_edges) ==
    UNION {{graph_add_edges(
                graph_add_vertices(graph_create(InitialCapacity, SCC_SUCCESS).graph,
                                   n, SCC_SUCCESS),
                Insertions(lists, 0), SCC_SUCCESS) :
              lists \in Adjacencies(n, 0, max_edges)} :
           n \in 0..max_vertices}

NoResultHeld ==
    /\ result = NULL
    /\ tarjan_result = NULL
    /\ kosaraju_result = NULL

Init ==
    /\ graph \in GraphsUpTo(MaxVertices, MaxEdges) \cup {ComplexGraph}
    /\ result = NULL
    /\ tarjan_result = NULL
    /\ kosaraju_result = NULL
    /\ condensed = NULL
    /\ condensed_result = NULL
    /\ last_error = SCC_SUCCESS
    /\ op = [name |-> "graph_create", ret |-> SCC_SUCCESS]
    /\ runs = <<>>
    /\ graphs = <<>>
    /\ memory = <<>>
    /\ blocks = {}
    /\ iter = NULL
    /\ yielded = <<>>
    /\ dfs = NULL

SccFind ==
    /\ NoResultHeld
    /\ \E heap \in Heaps(graph) :
          LET r == scc_find(graph, heap, last_error)
          IN /\ graph' = r.graph
             /\ result' = r.result
             /\ last_error' = r.last_error
             /\ op' = [name |-> "scc_find", ret |-> r.result]
    /\ UNCHANGED <<tarjan_result, kosaraju_result, condensed, condensed_result, runs, graphs, memory, blocks, iter, yielded, dfs>>

SccFindTarjan ==
    /\ result = NULL
    /\ tarjan_result = NULL
    /\ condensed = NULL
    /\ \E heap \in Heaps(graph) :
          LET r == scc_find_tarjan(graph, heap, last_error)
          IN /\ graph' = r.graph
             /\ tarjan_result' = r.result
             /\ last_error' = r.last_error
             /\ op' = [name |-> "scc_find_tarjan", ret |-> r.result]
    /\ UNCHANGED <<result, kosaraju_result, condensed, condensed_result, runs, graphs, memory, blocks, iter, yielded, dfs>>

SccFindKosaraju ==
    /\ result = NULL
    /\ kosaraju_result = NULL
    /\ condensed = NULL
    /\ LET r == scc_find_kosaraju(graph, last_error)
       IN /\ kosaraju_result' = r.result
          /\ last_error' = r.last_error
          /\ op' = [name |-> "scc_find_kosaraju", ret |-> r.result]
    /\ UNCHANGED <<graph, result, tarjan_result, condensed, condensed_result, runs, graphs, memory, blocks, iter, yielded, dfs>>

SccIsStronglyConnected ==
    /\ NoResultHeld
    /\ \E heap \in Heaps(graph) :
          LET r == scc_is_strongly_connected(graph, heap, last_error)
          IN /\ graph' = r.graph
             /\ last_error' = r.last_error
             /\ op' = [name |-> "scc_is_strongly_connected", ret |-> r.ret]
    /\ UNCHANGED <<result, tarjan_result, kosaraju_result, condensed, condensed_result, runs, graphs, memory, blocks, iter, yielded, dfs>>

ResultNames == {"result", "tarjan_result", "kosaraju_result"}

\* the result the client holds under a name
Held(name) ==
    CASE name = "result" -> result
      [] name = "tarjan_result" -> tarjan_result
      [] name = "kosaraju_result" -> kosaraju_result

SccBuildCondensationGraph(name) ==
    /\ Held(name) # NULL
    /\ \A other \in ResultNames \ {name} : Held(other) = NULL
    /\ condensed = NULL
    /\ LET r == scc_build_condensation_graph(graph, Held(name), last_error)
       IN /\ condensed' = IF r.graph = NULL THEN NULL
                          ELSE [graph |-> r.graph, scc |-> name]
          /\ last_error' = r.last_error
          /\ op' = [name |-> "scc_build_condensation_graph", ret |-> r.graph,
                    scc |-> name]
    /\ UNCHANGED <<graph, result, tarjan_result, kosaraju_result, condensed_result, runs, graphs, memory, blocks, iter, yielded, dfs>>

SccFindCondensed ==
    /\ condensed # NULL
    /\ condensed_result = NULL
    /\ \E heap \in Heaps(condensed.graph) :
          LET r == scc_find(condensed.graph, heap, last_error)
          IN /\ condensed' = [condensed EXCEPT !.graph = r.graph]
             /\ condensed_result' = r.result
             /\ last_error' = r.last_error
             /\ op' = [name |-> "scc_find_condensed", ret |-> r.result]
    /\ UNCHANGED <<graph, result, tarjan_result, kosaraju_result, runs, graphs, memory, blocks, iter, yielded, dfs>>

\* scc_result_destroy of a result of the graph, once no condensation is held
SccResultDestroy(name) ==
    /\ Held(name) # NULL
    /\ condensed = NULL
    /\ result' = IF name = "result" THEN NULL ELSE result
    /\ tarjan_result' = IF name = "tarjan_result" THEN NULL ELSE tarjan_result
    /\ kosaraju_result' = IF name = "kosaraju_result" THEN NULL ELSE kosaraju_result
    /\ op' = [name |-> "scc_result_destroy", ret |-> SCC_SUCCESS]
    /\ UNCHANGED <<graph, condensed, condensed_result, last_error, runs, graphs, memory, blocks, iter, yielded, dfs>>

\* scc_result_destroy(condensed_result) and graph_destroy(condensed), as a
\* client ends its work on a condensation
GraphDestroyCondensed ==
    /\ condensed # NULL
    /\ condensed' = NULL
    /\ condensed_result' = NULL
    /\ op' = [name |-> "graph_destroy", ret |-> SCC_SUCCESS]
    /\ UNCHANGED <<graph, result, tarjan_result, kosaraju_result, last_error, runs, graphs, memory, blocks, iter, yielded, dfs>>

Next ==
    \/ SccFind
    \/ SccFindTarjan
    \/ SccFindKosaraju
    \/ SccIsStronglyConnected
    \/ \E name \in ResultNames : SccBuildCondensationGraph(name)
    \/ SccFindCondensed
    \/ \E name \in ResultNames : SccResultDestroy(name)
    \/ GraphDestroyCondensed

Spec == Init /\ [][Next]_vars

\* the client that runs the Kosaraju engine alone
KosarajuNext ==
    \/ SccFindKosaraju
    \/ SccResultDestroy("kosaraju_result")

KosarajuSpec == Init /\ [][KosarajuNext]_vars

---------------------------------------------------------------------------
(* The client of the graph store: it creates a graph and calls the store    *)
(* with vertex arguments in and out of range, under every outcome of the    *)
(* allocations a call makes.                                                *)

\* the vertex arguments of a call, valid or not
Indices == -1..GraphVertices

\* the capacities a client asks graph_resize for
Capacities == 0..MaxCapacity

\* the handle a client passes for its graph
Handles == {graph, NULL}

GraphInit ==
    /\ graph \in {graph_create(initial_capacity, SCC_SUCCESS).graph :
                     initial_capacity \in 0..InitialCapacity}
    /\ result = NULL
    /\ tarjan_result = NULL
    /\ kosaraju_result = NULL
    /\ condensed = NULL
    /\ condensed_result = NULL
    /\ last_error = SCC_SUCCESS
    /\ op = [name |-> "graph_create", ret |-> SCC_SUCCESS]
    /\ runs = <<>>
    /\ graphs = <<>>
    /\ memory = <<>>
    /\ blocks = {}
    /\ iter = NULL
    /\ yielded = <<>>
    /\ dfs = NULL

GraphAddVertex(h, alloc) ==
    /\ LET r == graph_add_vertex_alloc(h, last_error, alloc)
       IN /\ h # NULL => r.graph.num_vertices <= GraphVertices
          /\ graph' = IF h = NULL THEN graph ELSE r.graph
          /\ last_error' = r.last_error
          /\ op' = [name |-> "graph_add_vertex", ret |-> r.ret,
                    args |-> [null |-> h = NULL]]
    /\ UNCHANGED <<result, tarjan_result, kosaraju_result, condensed, condensed_result, runs, graphs, memory, blocks, iter, yielded, dfs>>

GraphAddEdge(h, src, dest, alloc) ==
    /\ LET r == graph_add_edge_alloc(h, src, dest, last_error, alloc)
       IN /\ h # NULL => r.graph.num_edges <= GraphEdges
          /\ graph' = IF h = NULL THEN graph ELSE r.graph
          /\ last_error' = r.last_error
          /\ op' = [name |-> "graph_add_edge", ret |-> r.ret,
                    args |-> [null |-> h = NULL, src |-> src, dest |-> dest]]
    /\ UNCHANGED <<result, tarjan_result, kosaraju_result, condensed, condensed_result, runs, graphs, memory, blocks, iter, yielded, dfs>>

GraphRemoveEdge(h, src, dest) ==
    /\ LET r == graph_remove_edge(h, src, dest, last_error)
       IN /\ graph' = IF h = NULL THEN graph ELSE r.graph
          /\ last_error' = r.last_error
          /\ op' = [name |-> "graph_remove_edge", ret |-> r.ret,
                    args |-> [null |-> h = NULL, src |-> src, dest |-> dest]]
    /\ UNCHANGED <<result, tarjan_result, kosaraju_result, condensed, condensed_result, runs, graphs, memory, blocks, iter, yielded, dfs>>

GraphResize(h, new_capacity, alloc) ==
    /\ LET r == graph_resize(h, new_capacity, last_error, alloc)
       IN /\ graph' = IF h = NULL THEN graph ELSE r.graph
          /\ last_error' = r.last_error
          /\ op' = [name |-> "graph_resize", ret |-> r.ret,
                    args |-> [null |-> h = NULL, new_capacity |-> new_capacity]]
    /\ UNCHANGED <<result, tarjan_result, kosaraju_result, condensed, condensed_result, runs, graphs, memory, blocks, iter, yielded, dfs>>

GraphGetOutDegree(h, vertex) ==
    /\ LET r == graph_get_out_degree(h, vertex, last_error)
       IN /\ last_error' = r.last_error
          /\ op' = [name |-> "graph_get_out_degree", ret |-> r.ret,
                    args |-> [null |-> h = NULL, vertex |-> vertex]]
    /\ UNCHANGED <<graph, result, tarjan_result, kosaraju_result, condensed, condensed_result, runs, graphs, memory, blocks, iter, yielded, dfs>>

GraphVerifyIntegrity(h) ==
    /\ LET r == graph_verify_integrity(h, last_error)
       IN /\ last_error' = r.last_error
          /\ op' = [name |-> "graph_verify_integrity", ret |-> r.ret,
                    args |-> [null |-> h = NULL]]
    /\ UNCHANGED <<graph, result, tarjan_result, kosaraju_result, condensed, condensed_result, runs, graphs, memory, blocks, iter, yielded, dfs>>

\* the graphs a client can hand to graph_transpose: its graph, the graph its
\* last call of graph_transpose returned, or a null pointer
Transposables ==
    Handles \cup (IF op.name = "graph_transpose" /\ op.ret # NULL THEN {op.ret} ELSE {})

\* graph_transpose(h); the client keeps the returned graph until its next call
GraphTranspose(h) ==
    /\ last_error' = IF h = NULL THEN SCC_ERROR_NULL_POINTER ELSE last_error
    /\ op' = [name |-> "graph_transpose",
              ret |-> IF h = NULL THEN NULL ELSE graph_transpose(h, last_error),
              args |-> [null |-> h = NULL, graph |-> h]]
    /\ UNCHANGED <<graph, result, tarjan_result, kosaraju_result, condensed, condensed_result, runs, graphs, memory, blocks, iter, yielded, dfs>>

\* the calls that build and edit the client's graph; graph_add_edge makes one
\* allocation, the malloc of the edge
MutateNext ==
    \/ \E alloc \in Allocs : GraphAddVertex(graph, alloc)
    \/ \E src \in Indices, dest \in Indices, edge_created \in BOOLEAN :
          GraphAddEdge(graph, src, dest, [realloc |-> TRUE, malloc |-> edge_created])
    \/ \E src \in Indices, dest \in Indices : GraphRemoveEdge(graph, src, dest)

MutateSpec == GraphInit /\ [][MutateNext]_vars

\* a client that also transposes
TransposeNext ==
    \/ MutateNext
    \/ \E h \in Transposables : GraphTranspose(h)

TransposeSpec == GraphInit /\ [][TransposeNext]_vars

\* a client that also resizes and queries, and passes its graph or a null
\* pointer
GraphNext ==
    \/ \E h \in Handles, alloc \in Allocs : GraphAddVertex(h, alloc)
    \/ \E h \in Handles, src \in Indices, dest \in Indices, edge_created \in BOOLEAN :
          GraphAddEdge(h, src, dest, [realloc |-> TRUE, malloc |-> edge_created])
    \/ \E h \in Handles, src \in Indices, dest \in Indices : GraphRemoveEdge(h, src, dest)
    \/ \E h \in Handles, new_capacity \in Capacities, alloc \in Allocs :
          GraphResize(h, new_capacity, alloc)
    \/ \E h \in Handles, vertex \in Indices : GraphGetOutDegree(h, vertex)
    \/ \E h \in Handles : GraphVerifyIntegrity(h)

GraphSpec == GraphInit /\ [][GraphNext]_vars

---------------------------------------------------------------------------
(* The client that copies its graph: it builds a graph, copies it once and  *)
(* goes on editing the original and the copy.                               *)

GraphNames == {"original", "copy"}

CopyInit ==
    /\ graph = graph_create(InitialCapacity, SCC_SUCCESS).graph
    /\ result = NULL
    /\ tarjan_result = NULL
    /\ kosaraju_result = NULL
    /\ condensed = NULL
    /\ condensed_result = NULL
    /\ last_error = SCC_SUCCESS
    /\ op = [name |-> "graph_create", ret |-> SCC_SUCCESS]
    /\ runs = <<>>
    /\ graphs = [original |-> graph_create(InitialCapacity, SCC_SUCCESS).graph,
                 copy |-> NULL]
    /\ memory = <<>>
    /\ blocks = {}
    /\ iter = NULL
    /\ yielded = <<>>
    /\ dfs = NULL

\* what a call on graphs[name] that returned r leaves behind
CopyFrame(name, call, r) ==
    /\ LET put == graph_put(graphs[name], memory, r.graph)
       IN /\ graphs' = [graphs EXCEPT ![name] = put.graph]
          /\ memory' = put.memory
    /\ last_error' = r.last_error
    /\ op' = [name |-> call, ret |-> r.ret, args |-> [graph |-> name]]
    /\ UNCHANGED <<graph, result, tarjan_result, kosaraju_result, condensed,
                   condensed_result, runs, blocks, iter, yielded, dfs>>

CopyAddVertex(name) ==
    /\ graphs[name] # NULL
    /\ graphs[name].num_vertices < CopyVertices
    /\ CopyFrame(name, "graph_add_vertex",
                 graph_add_vertex(graph_at(graphs[name], memory), last_error))

CopyAddEdge(name, src, dest) ==
    /\ graphs[name] # NULL
    /\ graphs[name].num_edges < CopyEdges
    /\ CopyFrame(name, "graph_add_edge",
                 graph_add_edge(graph_at(graphs[name], memory), src, dest, last_error))

CopyRemoveEdge(name, src, dest) ==
    /\ graphs[name] # NULL
    /\ CopyFrame(name, "graph_remove_edge",
                 graph_remove_edge(graph_at(graphs[name], memory), src, dest, last_error))

GraphCopy ==
    /\ graphs.copy = NULL
    /\ LET r == graph_copy(graphs.original, memory, last_error)
       IN /\ graphs' = [graphs EXCEPT !.copy = r.graph]
          /\ memory' = r.memory
          /\ last_error' = r.last_error
          /\ op' = [name |-> "graph_copy", args |-> [graph |-> "original"]]
    /\ UNCHANGED <<graph, result, tarjan_result, kosaraju_result, condensed,
                   condensed_result, runs, blocks, iter, yielded, dfs>>

CopyNext ==
    \/ \E name \in GraphNames : CopyAddVertex(name)
    \/ \E name \in GraphNames, src \in 0..(CopyVertices - 1), dest \in 0..(CopyVertices - 1) :
          CopyAddEdge(name, src, dest)
    \/ \E name \in GraphNames, src \in 0..(CopyVertices - 1), dest \in 0..(CopyVertices - 1) :
          CopyRemoveEdge(name, src, dest)
    \/ GraphCopy

CopySpec == CopyInit /\ [][CopyNext]_vars

---------------------------------------------------------------------------
(* The client of the dispatcher's heuristic: it asks scc_recommend_algorithm *)
(* about graphs whose counts lie around the two thresholds. The vertex table *)
(* of these graphs is left out: the heuristic reads num_vertices and         *)
(* num_edges only.                                                           *)

\* how far around a threshold the counts of the graphs range
CountsAround == 3

\* a graph_t with num_vertices vertices and num_edges edges
graph_of_counts(num_vertices, num_edges) ==
    [vertices |-> <<>>, num_vertices |-> num_vertices, num_edges |-> num_edges,
     capacity |-> IF num_vertices = 0 THEN InitialCapacity ELSE num_vertices,
     allocated |-> IF num_vertices = 0 THEN InitialCapacity ELSE num_vertices]

VertexCounts ==
    0..CountsAround
      \cup (LargeGraphVertices - CountsAround)..(LargeGraphVertices + CountsAround)

\* edge counts of a graph of n vertices: none, around a tenth of all pairs, all
EdgeCounts(n) ==
    {e \in {0, n * n} \cup ((n * n) \div DensityDenominator - CountsAround)
                              ..((n * n) \div DensityDenominator + CountsAround) :
        e >= 0 /\ e <= n * n}

RecommendInit ==
    /\ graph \in UNION {{graph_of_counts(n, e) : e \in EdgeCounts(n)} : n \in VertexCounts}
                   \cup {NULL}
    /\ result = NULL
    /\ tarjan_result = NULL
    /\ kosaraju_result = NULL
    /\ condensed = NULL
    /\ condensed_result = NULL
    /\ last_error = SCC_SUCCESS
    /\ op = [name |-> "graph_create", ret |-> SCC_SUCCESS]
    /\ runs = <<>>
    /\ graphs = <<>>
    /\ memory = <<>>
    /\ blocks = {}
    /\ iter = NULL
    /\ yielded = <<>>
    /\ dfs = NULL

SccRecommendAlgorithm ==
    /\ op' = [name |-> "scc_recommend_algorithm", ret |-> scc_recommend_algorithm(graph)]
    /\ UNCHANGED <<graph, result, tarjan_result, kosaraju_result, condensed,
                   condensed_result, last_error, runs, graphs, memory, blocks, iter, yielded, dfs>>

RecommendSpec == RecommendInit /\ [][SccRecommendAlgorithm]_vars

---------------------------------------------------------------------------
(* The client of the edge iterator: it builds a graph, creates an iterator *)
(* on it and calls next and reset in any order, without touching the       *)
(* graph, collecting the edges it is handed.                               *)

\* the sizes of the graphs the iterator runs over
IterVertices == 3
IterEdges == 3

IterInit ==
    /\ graph \in GraphsUpTo(IterVertices, IterEdges)
    /\ result = NULL
    /\ tarjan_result = NULL
    /\ kosaraju_result = NULL
    /\ condensed = NULL
    /\ condensed_result = NULL
    /\ last_error = SCC_SUCCESS
    /\ op = [name |-> "graph_create", ret |-> TRUE]
    /\ runs = <<>>
    /\ graphs = <<>>
    /\ memory = <<>>
    /\ blocks = {}
    /\ iter = NULL
    /\ yielded = <<>>
    /\ dfs = NULL

IterFrame ==
    UNCHANGED <<graph, result, tarjan_result, kosaraju_result, condensed,
                condensed_result, runs, graphs, memory, blocks, dfs>>

GraphEdgeIteratorCreate ==
    /\ iter = NULL
    /\ \E alloc \in Allocs :
          LET r == graph_edge_iterator_create(graph, last_error, alloc)
          IN /\ iter' = r.iter
             /\ last_error' = r.last_error
             /\ op' = [name |-> "graph_edge_iterator_create", ret |-> r.iter # NULL]
    /\ yielded' = <<>>
    /\ IterFrame

GraphEdgeIteratorNext(out) ==
    /\ LET r == graph_edge_iterator_next(graph, iter, out)
       IN /\ iter' = r.iter
          /\ yielded' = yielded \o r.written
          /\ op' = [name |-> "graph_edge_iterator_next", ret |-> r.ret, out |-> out]
    /\ UNCHANGED last_error
    /\ IterFrame

GraphEdgeIteratorReset ==
    /\ iter' = graph_edge_iterator_reset(graph, iter)
    /\ yielded' = <<>>
    /\ op' = [name |-> "graph_edge_iterator_reset", ret |-> TRUE]
    /\ UNCHANGED last_error
    /\ IterFrame

GraphEdgeIteratorDestroy ==
    /\ iter # NULL
    /\ iter' = NULL
    /\ yielded' = <<>>
    /\ op' = [name |-> "graph_edge_iterator_destroy", ret |-> TRUE]
    /\ UNCHANGED last_error
    /\ IterFrame

IterNext ==
    \/ GraphEdgeIteratorCreate
    \/ \E out \in BOOLEAN : GraphEdgeIteratorNext(out)
    \/ GraphEdgeIteratorReset
    \/ GraphEdgeIteratorDestroy

IterSpec == IterInit /\ [][IterNext]_vars

---------------------------------------------------------------------------
(* The client that watches its heap: it runs the engines on its graph, with *)
(* any one allocation of a run failing or none, and hands the results to    *)
(* scc_result_destroy. blocks holds the blocks of the runs that are         *)
(* allocated, each under the name of the result its run was for.            *)

HeapResultNames == {"tarjan_result", "kosaraju_result"}

\* the blocks under the name of a result
Owned(name, bs) == {<<name, b[1], b[2]>> : b \in bs}

\* the numbers of the allocation that fails in a run on g, 0 for none:
\* those of tarjan_state_create, and for Kosaraju graph_transpose after those
\* of kosaraju_state_create; a run on a graph without vertices allocates nothing
TarjanFailings(g) ==
    IF g.num_vertices <= 0 THEN {0}
    ELSE 0..Len(tarjan_state_allocations(g.num_vertices))

KosarajuFailings(g) ==
    IF g.num_vertices <= 0 THEN {0}
    ELSE 0..(Len(kosaraju_state_allocations(g.num_vertices)) + 1)

HeapInit ==
    /\ graph \in GraphsUpTo(GraphVertices, GraphEdges)
    /\ result = NULL
    /\ tarjan_result = NULL
    /\ kosaraju_result = NULL
    /\ condensed = NULL
    /\ condensed_result = NULL
    /\ last_error = SCC_SUCCESS
    /\ op = [name |-> "graph_create", failing |-> 0]
    /\ runs = <<>>
    /\ graphs = <<>>
    /\ memory = <<>>
    /\ blocks = {}
    /\ iter = NULL
    /\ yielded = <<>>
    /\ dfs = NULL

HeapFrame ==
    UNCHANGED <<result, condensed, condensed_result, runs, graphs, memory,
                iter, yielded, dfs>>

HeapFindTarjan(failing) ==
    /\ tarjan_result = NULL
    /\ \E heap \in Heaps(graph) :
          LET r == scc_find_tarjan_blocks(graph, heap, last_error, failing)
          IN /\ graph' = r.graph
             /\ tarjan_result' = r.result
             /\ last_error' = r.last_error
             /\ blocks' = blocks \cup Owned("tarjan_result", r.blocks)
    /\ op' = [name |-> "scc_find_tarjan", failing |-> failing]
    /\ UNCHANGED kosaraju_result
    /\ HeapFrame

HeapFindKosaraju(failing) ==
    /\ kosaraju_result = NULL
    /\ LET r == scc_find_kosaraju_blocks(graph, last_error, failing)
       IN /\ kosaraju_result' = r.result
          /\ last_error' = r.last_error
          /\ blocks' = blocks \cup Owned("kosaraju_result", r.blocks)
    /\ op' = [name |-> "scc_find_kosaraju", failing |-> failing]
    /\ UNCHANGED <<graph, tarjan_result>>
    /\ HeapFrame

HeapResultDestroy(name) ==
    /\ Held(name) # NULL
    /\ blocks' = blocks \ Owned(name, scc_result_destroy(Held(name)))
    /\ tarjan_result' = IF name = "tarjan_result" THEN NULL ELSE tarjan_result
    /\ kosaraju_result' = IF name = "kosaraju_result" THEN NULL ELSE kosaraju_result
    /\ op' = [name |-> "scc_result_destroy", failing |-> 0]
    /\ UNCHANGED <<graph, last_error>>
    /\ HeapFrame

HeapNext ==
    \/ \E failing \in TarjanFailings(graph) : HeapFindTarjan(failing)
    \/ \E failing \in KosarajuFailings(graph) : HeapFindKosaraju(failing)
    \/ \E name \in HeapResultNames : HeapResultDestroy(name)

HeapSpec == HeapInit /\ [][HeapNext]_vars

---------------------------------------------------------------------------
(* The client of graph_dfs, src/src/utils.c, with the call taken one turn  *)
(* of its loops at a time. dfs is the activation: visited, the cells of    *)
(* stack below stack_top (stack_top is Len(dfs.stack)), the vertex at hand *)
(* and the rest of its edge list, and the vertices visit_func was called   *)
(* with. The stack array has num_vertices cells: a cell past them lies     *)
(* outside the block, and what is read back from there is undefined.       *)

\* the sizes of the graphs graph_dfs runs over: vertex 0 has an edge to every
\* other vertex, and the other vertices have up to DfsExtraEdges edges
DfsVertices == 5
DfsExtraEdges == 3

\* the edge list of a vertex with an edge to each of the vertices 1..n-1
Fan(n) == [i \in 1..(n - 1) |-> i]

DfsInit ==
    /\ graph \in UNION {{graph_add_edges(
                            graph_add_vertices(
                                graph_create(InitialCapacity, SCC_SUCCESS).graph,
                                n, SCC_SUCCESS),
                            Insertions(<<Fan(n)>> \o rest, 0), SCC_SUCCESS) :
                          rest \in Adjacencies(n, 1, DfsExtraEdges)} :
                       n \in 1..DfsVertices}
    /\ result = NULL
    /\ tarjan_result = NULL
    /\ kosaraju_result = NULL
    /\ condensed = NULL
    /\ condensed_result = NULL
    /\ last_error = SCC_SUCCESS
    /\ op = [name |-> "graph_create"]
    /\ runs = <<>>
    /\ graphs = <<>>
    /\ memory = <<>>
    /\ blocks = {}
    /\ iter = NULL
    /\ yielded = <<>>
    /\ dfs = NULL

DfsFrame ==
    UNCHANGED <<graph, result, tarjan_result, kosaraju_result, condensed,
                condensed_result, runs, graphs, memory, blocks, iter, yielded>>

\* graph_dfs from its entry to the head of its while loop; failing is the
\* number of the allocation that fails, 0 for none
GraphDfs(start_vertex, failing) ==
    /\ dfs = NULL
    /\ IF start_vertex < 0 \/ start_vertex >= graph_get_vertex_count(graph)
       THEN /\ last_error' = SCC_ERROR_INVALID_PARAMETER
            /\ UNCHANGED dfs
       ELSE IF failing # 0
       THEN /\ last_error' = SCC_ERROR_MEMORY_ALLOCATION
            /\ UNCHANGED dfs
       ELSE /\ dfs' = [visited |-> [i \in 0..(graph.num_vertices - 1) |-> FALSE],
                       stack |-> <<start_vertex>>,
                       current |-> start_vertex,
                       edges |-> <<>>,
                       visits |-> <<>>,
                       pc |-> "loop"]
            /\ UNCHANGED last_error
    /\ op' = [name |-> "graph_dfs"]
    /\ DfsFrame

\* one turn of the outer while loop, up to the inner one: the pop and the
\* visit. A cell outside the stack array gives any vertex, or ends the run.
GraphDfsPop ==
    /\ dfs # NULL
    /\ dfs.pc = "loop"
    /\ dfs.edges = <<>>
    /\ dfs.stack # <<>>
    /\ LET stack_top == Len(dfs.stack) - 1
           popped == [dfs EXCEPT !.stack = SubSeq(@, 1, stack_top)]
       IN \E current \in IF stack_top < graph.num_vertices
                         THEN {dfs.stack[stack_top + 1]}
                         ELSE 0..(graph.num_vertices - 1) \cup {-1} :
             dfs' = IF current = -1
                    THEN [popped EXCEPT !.pc = "undefined"]
                    ELSE IF ~dfs.visited[current]
                    THEN [popped EXCEPT !.current = current,
                                        !.visited[current] = TRUE,
                                        !.visits = Append(@, current),
                                        !.edges = graph.vertices[current].edges]
                    ELSE [popped EXCEPT !.current = current]
    /\ UNCHANGED <<last_error, op>>
    /\ DfsFrame

\* one turn of the inner while loop: the push of an unvisited neighbour
GraphDfsPush ==
    /\ dfs # NULL
    /\ dfs.pc = "loop"
    /\ dfs.edges # <<>>
    /\ dfs' = IF ~dfs.visited[Head(dfs.edges)]
              THEN [dfs EXCEPT !.stack = Append(@, Head(dfs.edges)),
                               !.edges = Tail(@)]
              ELSE [dfs EXCEPT !.edges = Tail(@)]
    /\ UNCHANGED <<last_error, op>>
    /\ DfsFrame

\* the end of graph_dfs: stack and visited are freed
GraphDfsReturn ==
    /\ dfs # NULL
    /\ dfs.pc = "loop"
    /\ dfs.edges = <<>>
    /\ dfs.stack = <<>>
    /\ dfs' = NULL
    /\ op' = [name |-> "graph_dfs_return"]
    /\ UNCHANGED last_error
    /\ DfsFrame

DfsNext ==
    \/ \E start_vertex \in -1..DfsVertices, failing \in 0..2 :
          GraphDfs(start_vertex, failing)
    \/ GraphDfsPop
    \/ GraphDfsPush
    \/ GraphDfsReturn

DfsSpec == DfsInit /\ [][DfsNext]_vars

---------------------------------------------------------------------------
(* The client of the result accessors: it runs the Kosaraju engine and      *)
(* reads the result it holds with component and vertex arguments in and out *)
(* of range.                                                                *)

\* the component and vertex arguments of an accessor call, valid or not
AccessorIndices == -1..(MaxVertices + 1)

SccGetComponentCount ==
    /\ LET r == scc_get_component_count(kosaraju_result, last_error)
       IN /\ last_error' = r.last_error
          /\ op' = [name |-> "scc_get_component_count", ret |-> r.ret,
                    args |-> [null |-> kosaraju_result = NULL]]
    /\ UNCHANGED <<graph, result, tarjan_result, kosaraju_result, condensed, condensed_result, runs, graphs, memory, blocks, iter, yielded, dfs>>

SccGetComponentSize(component_id) ==
    /\ LET r == scc_get_component_size(kosaraju_result, component_id, last_error)
       IN /\ last_error' = r.last_error
          /\ op' = [name |-> "scc_get_component_size", ret |-> r.ret,
                    args |-> [null |-> kosaraju_result = NULL,
                              component_id |-> component_id]]
    /\ UNCHANGED <<graph, result, tarjan_result, kosaraju_result, condensed, condensed_result, runs, graphs, memory, blocks, iter, yielded, dfs>>

SccGetVertexComponent(vertex, beyond) ==
    /\ LET r == scc_get_vertex_component(kosaraju_result, vertex, last_error, beyond)
       IN /\ last_error' = r.last_error
          /\ op' = [name |-> "scc_get_vertex_component", ret |-> r.ret,
                    args |-> [null |-> kosaraju_result = NULL, vertex |-> vertex],
                    outside |-> r.outside]
    /\ UNCHANGED <<graph, result, tarjan_result, kosaraju_result, condensed, condensed_result, runs, graphs, memory, blocks, iter, yielded, dfs>>

AccessorNext ==
    \/ KosarajuNext
    \/ SccGetComponentCount
    \/ \E component_id \in AccessorIndices : SccGetComponentSize(component_id)
    \/ \E vertex \in AccessorIndices, beyond \in GarbageInts(graph.num_vertices) :
          SccGetVertexComponent(vertex, beyond)

AccessorSpec == Init /\ [][AccessorNext]_vars

---------------------------------------------------------------------------
(* Two engine runs on one graph that nobody mutates, as the sections of    *)
(* parallel_scc_analysis start them. Each run is a thread with its own     *)
(* engine state, call stack and error slot; the vertices of the graph are  *)
(* the memory the threads share. A step of a thread is one statement of    *)
(* its engine that reads or writes a vertex of the graph, with the work on *)
(* the thread's own state that leads to the next such statement. The       *)
(* Kosaraju engine reads edge lists only, so its steps are its passes.     *)

\* the graphs of the parallel runs have up to ParVertices vertices and
\* ParEdges edges
ParVertices == 2
ParEdges == 2

Threads == {1, 2}

Engines == {"tarjan", "kosaraju"}

\* what malloc can have left in the vertex_to_component array of a run: one
\* value of GarbageInts in all its cells (no run reads a cell it has not
\* written)
ParHeaps(n) == {[i \in 0..(n - 1) |-> fill] : fill \in GarbageInts(n)}

\* a thread about to call engine on the graph
NewRun(engine) ==
    [engine |-> engine, pc |-> "start", i |-> 0, frames |-> <<>>, state |-> NULL,
     heap |-> <<>>, result |-> NULL, last_error |-> SCC_SUCCESS]

ParInit ==
    /\ graph \in GraphsUpTo(ParVertices, ParEdges)
    /\ result = NULL
    /\ tarjan_result = NULL
    /\ kosaraju_result = NULL
    /\ condensed = NULL
    /\ condensed_result = NULL
    /\ last_error = SCC_SUCCESS
    /\ op = [name |-> "graph_create", ret |-> SCC_SUCCESS]
    /\ runs \in [Threads -> {NewRun(engine) : engine \in Engines}]
    /\ graphs = <<>>
    /\ memory = <<>>
    /\ blocks = {}
    /\ iter = NULL
    /\ yielded = <<>>
    /\ dfs = NULL

\* the frame of the innermost tarjan_dfs_recursive call of a run
Top(run) == run.frames[Len(run.frames)]

\* the frames of a run with fields of the innermost one replaced
WithTop(run, pc, edges) ==
    [run.frames EXCEPT ![Len(run.frames)].pc = pc, ![Len(run.frames)].edges = edges]

ParFrame ==
    UNCHANGED <<result, tarjan_result, kosaraju_result, condensed, condensed_result,
                last_error, op, graphs, memory, blocks, iter, yielded, dfs>>

\* scc_find_tarjan up to the first loop of scc_tarjan_internal
RunTarjanStart(t) ==
    /\ runs[t].engine = "tarjan"
    /\ runs[t].pc = "start"
    /\ IF graph_get_vertex_count(graph) <= 0
       THEN runs' = [runs EXCEPT ![t].pc = "done",
                                 ![t].last_error = SCC_ERROR_GRAPH_EMPTY]
       ELSE \E heap \in ParHeaps(graph.num_vertices) :
               runs' = [runs EXCEPT
                          ![t].pc = "reset",
                          ![t].heap = heap,
                          ![t].state = tarjan_state_create(graph.num_vertices, heap)]
    /\ UNCHANGED graph
    /\ ParFrame

\* one turn of the first for loop of scc_tarjan_internal
RunTarjanReset(t) ==
    /\ runs[t].pc = "reset"
    /\ LET i == runs[t].i
       IN /\ graph' = [graph EXCEPT !.vertices[i].index = -1,
                                    !.vertices[i].lowlink = -1,
                                    !.vertices[i].on_stack = FALSE]
          /\ runs' = IF i + 1 < graph.num_vertices
                     THEN [runs EXCEPT ![t].i = i + 1]
                     ELSE [runs EXCEPT ![t].i = 0, ![t].pc = "scan"]
    /\ ParFrame

\* one turn of the second for loop of scc_tarjan_internal, up to the call
RunTarjanScan(t) ==
    /\ runs[t].pc = "scan"
    /\ runs[t].frames = <<>>
    /\ runs[t].i < graph.num_vertices
    /\ runs' = IF graph.vertices[runs[t].i].index = -1
               THEN [runs EXCEPT ![t].frames =
                                    <<[v |-> runs[t].i, pc |-> "enter", edges |-> <<>>]>>]
               ELSE [runs EXCEPT ![t].i = @ + 1]
    /\ UNCHANGED graph
    /\ ParFrame

\* tarjan_dfs_recursive from its entry to the head of its while loop
RunTarjanEnter(t) ==
    /\ runs[t].pc = "scan"
    /\ runs[t].frames # <<>>
    /\ Top(runs[t]).pc = "enter"
    /\ LET v == Top(runs[t]).v
           state == runs[t].state
       IN /\ graph' = [graph EXCEPT !.vertices[v].index = state.current_index,
                                    !.vertices[v].lowlink = state.current_index,
                                    !.vertices[v].on_stack = TRUE]
          /\ runs' = [runs EXCEPT
                        ![t].state = tarjan_stack_push(
                                         [state EXCEPT !.current_index = @ + 1], v),
                        ![t].frames = WithTop(runs[t], "edge", graph.vertices[v].edges)]
    /\ ParFrame

\* one turn of the while loop of tarjan_dfs_recursive, up to the recursive
\* call when the edge is a tree edge
RunTarjanEdge(t) ==
    /\ runs[t].pc = "scan"
    /\ runs[t].frames # <<>>
    /\ Top(runs[t]).pc = "edge"
    /\ Top(runs[t]).edges # <<>>
    /\ LET v == Top(runs[t]).v
           edges == Top(runs[t]).edges
           w == Head(edges)
       IN IF graph.vertices[w].index = -1
          THEN /\ runs' = [runs EXCEPT ![t].frames =
                              Append(WithTop(runs[t], "return", edges),
                                     [v |-> w, pc |-> "enter", edges |-> <<>>])]
               /\ UNCHANGED graph
          ELSE IF graph.vertices[w].on_stack
          THEN /\ graph' = [graph EXCEPT !.vertices[v].lowlink =
                                            Min(@, graph.vertices[w].index)]
               /\ runs' = [runs EXCEPT ![t].frames = WithTop(runs[t], "edge", Tail(edges))]
          ELSE /\ runs' = [runs EXCEPT ![t].frames = WithTop(runs[t], "edge", Tail(edges))]
               /\ UNCHANGED graph
    /\ ParFrame

\* the lowlink update that follows the recursive call
RunTarjanReturn(t) ==
    /\ runs[t].pc = "scan"
    /\ runs[t].frames # <<>>
    /\ Top(runs[t]).pc = "return"
    /\ LET v == Top(runs[t]).v
           edges == Top(runs[t]).edges
           w == Head(edges)
       IN /\ graph' = [graph EXCEPT !.vertices[v].lowlink =
                                       Min(@, graph.vertices[w].lowlink)]
          /\ runs' = [runs EXCEPT ![t].frames = WithTop(runs[t], "edge", Tail(edges))]
    /\ ParFrame

\* the vertices tarjan_extract_scc would pop for root
tarjan_extract_count(state, root) ==
    LET top == CHOOSE k \in 1..state.stack_top :
                  /\ state.stack[k] = root
                  /\ \A j \in (k + 1)..state.stack_top : state.stack[j] # root
    IN state.stack_top - top + 1

\* tarjan_extract_scc stays inside the arrays tarjan_state_create allocated
tarjan_extract_in_bounds(state, root) ==
    /\ state.current_component \in DOMAIN state.result.components
    /\ tarjan_extract_count(state, root)
         <= state.result.components[state.current_component].capacity

\* the end of tarjan_dfs_recursive: the root test, tarjan_extract_scc and the
\* return. A write past the end of an array leaves the run undefined.
RunTarjanExit(t) ==
    /\ runs[t].pc = "scan"
    /\ runs[t].frames # <<>>
    /\ Top(runs[t]).pc = "edge"
    /\ Top(runs[t]).edges = <<>>
    /\ LET v == Top(runs[t]).v
           state == runs[t].state
           left == SubSeq(runs[t].frames, 1, Len(runs[t].frames) - 1)
           returned == [runs EXCEPT ![t].frames = left,
                                    ![t].i = IF left = <<>> THEN @ + 1 ELSE @]
       IN runs' = IF graph.vertices[v].lowlink # graph.vertices[v].index
                  THEN returned
                  ELSE IF tarjan_extract_in_bounds(state, v)
                  THEN [returned EXCEPT ![t].state = tarjan_extract_scc(state, v)]
                  ELSE [runs EXCEPT ![t].pc = "undefined"]
    /\ UNCHANGED graph
    /\ ParFrame

\* the statistics of scc_tarjan_internal and the return of scc_find_tarjan
RunTarjanFinish(t) ==
    /\ runs[t].pc = "scan"
    /\ runs[t].frames = <<>>
    /\ runs[t].i >= graph.num_vertices
    /\ runs' = [runs EXCEPT
                  ![t].pc = "done",
                  ![t].result = result_statistics(runs[t].state.result,
                                                  graph.num_vertices),
                  ![t].state = NULL]
    /\ UNCHANGED graph
    /\ ParFrame

\* scc_find_kosaraju up to step 1 of scc_kosaraju_internal
RunKosarajuStart(t) ==
    /\ runs[t].engine = "kosaraju"
    /\ runs[t].pc = "start"
    /\ runs' = IF graph_get_vertex_count(graph) <= 0
               THEN [runs EXCEPT ![t].pc = "done",
                                 ![t].last_error = SCC_ERROR_GRAPH_EMPTY]
               ELSE [runs EXCEPT ![t].pc = "first_pass",
                                 ![t].state = kosaraju_state_create(graph.num_vertices)]
    /\ UNCHANGED graph
    /\ ParFrame

\* step 1 of scc_kosaraju_internal
RunKosarajuFirstPass(t) ==
    /\ runs[t].pc = "first_pass"
    /\ runs' = [runs EXCEPT ![t].pc = "transpose",
                            ![t].state = kosaraju_first_pass(graph, 0, @)]
    /\ UNCHANGED graph
    /\ ParFrame

\* step 2 of scc_kosaraju_internal
RunKosarajuTranspose(t) ==
    /\ runs[t].pc = "transpose"
    /\ runs' = [runs EXCEPT
                  ![t].pc = "second_pass",
                  ![t].state.transpose_graph = graph_transpose(graph, runs[t].last_error)]
    /\ UNCHANGED graph
    /\ ParFrame

\* step 3 of scc_kosaraju_internal, its statistics and the return of
\* scc_find_kosaraju
RunKosarajuSecondPass(t) ==
    /\ runs[t].pc = "second_pass"
    /\ LET second == kosaraju_second_pass(runs[t].state.finish_index - 1, runs[t].state)
       IN runs' = [runs EXCEPT
                     ![t].pc = "done",
                     ![t].result = result_statistics(second.result, graph.num_vertices),
                     ![t].state = NULL]
    /\ UNCHANGED graph
    /\ ParFrame

ParNext ==
    \E t \in Threads :
        \/ RunTarjanStart(t)
        \/ RunTarjanReset(t)
        \/ RunTarjanScan(t)
        \/ RunTarjanEnter(t)
        \/ RunTarjanEdge(t)
        \/ RunTarjanReturn(t)
        \/ RunTarjanExit(t)
        \/ RunTarjanFinish(t)
        \/ RunKosarajuStart(t)
        \/ RunKosarajuFirstPass(t)
        \/ RunKosarajuTranspose(t)
        \/ RunKosarajuSecondPass(t)

ParSpec == ParInit /\ [][ParNext]_vars

\* what the engine of a run returns for the graph when it runs alone, from
\* the same heap
RunAlone(run) ==
    IF run.engine = "tarjan"
    THEN scc_find_tarjan(graph, run.heap, SCC_SUCCESS).result
    ELSE scc_find_kosaraju(graph, SCC_SUCCESS).result

---------------------------------------------------------------------------
(* What the claims speak of, defined from the edge lists alone.            *)

Vertices(g) == 0..(g.num_vertices - 1)

\* g has the edge u -> v
Edge(g, u, v) == \E i \in 1..Len(g.vertices[u].edges) : g.vertices[u].edges[i] = v

RECURSIVE ReachableFrom(_, _)
\* the vertices some vertex of S reaches along edges of g (S itself included)
ReachableFrom(g, S) ==
    LET further == S \cup {v \in Vertices(g) : \E u \in S : Edge(g, u, v)}
    IN IF further = S THEN S ELSE ReachableFrom(g, further)

Reaches(g, u, v) == v \in ReachableFrom(g, {u})

MutuallyReachable(g, u, v) == Reaches(g, u, v) /\ Reaches(g, v, u)

\* the edge lists of a graph, apart from the engines' per-vertex fields
EdgesOf(g) == [v \in Vertices(g) |-> g.vertices[v].edges]

Components(res) == 0..(res.num_components - 1)

\* the vertex ids listed in component c of a result
ComponentVertices(res, c) ==
    {res.components[c].vertices[k] : k \in 1..res.components[c].size}

\* u and v are listed in one component of the result
SameComponent(res, u, v) ==
    \E c \in Components(res) :
        u \in ComponentVertices(res, c) /\ v \in ComponentVertices(res, c)

\* the places (component, position) where the result lists vertex v
Listings(res, v) ==
    {<<c, k>> \in Components(res) \X (1..Cardinality(DOMAIN res.vertex_to_component)) :
        k <= res.components[c].size /\ res.components[c].vertices[k] = v}

\* the result groups the vertices of g by mutual reachability
GroupsByMutualReachability(g, res) ==
    \A u \in Vertices(g), v \in Vertices(g) :
        SameComponent(res, u, v) <=> MutuallyReachable(g, u, v)

\* the result lists every vertex of g exactly once and the sizes add up
IsPartition(g, res) ==
    /\ \A v \in Vertices(g) : Cardinality(Listings(res, v)) = 1
    /\ total_size(res, 0) = g.num_vertices

\* the condensed graph g has a cycle (a self-loop included)
HasCycle(g) ==
    \E u \in Vertices(g) :
        \E v \in Vertices(g) : Edge(g, u, v) /\ Reaches(g, v, u)

---------------------------------------------------------------------------
(* The claims.                                                             *)

\* C1: for every graph with at least one vertex, scc_find_tarjan (and
\* scc_find when it dispatches to Tarjan) returns a result in which two
\* vertices share a component exactly when each reaches the other; the graph
\* of test_tarjan_complex_graph gets the components {0,1,2}, {3,4}, {5,6,7}.
C1_TarjanGroupsByMutualReachability ==
    (/\ op.name \in {"scc_find_tarjan", "scc_find"}
     /\ scc_recommend_algorithm(graph) = "SCC_ALGORITHM_TARJAN"
     /\ graph.num_vertices >= 1)
    => /\ op.ret # NULL
       /\ GroupsByMutualReachability(graph, op.ret)
       /\ EdgesOf(graph) = EdgesOf(ComplexGraph)
          => /\ op.ret.num_components = 3
             /\ {ComponentVertices(op.ret, c) : c \in Components(op.ret)}
                  = {{0, 1, 2}, {3, 4}, {5, 6, 7}}

\* C2: for every graph with at least one vertex, the result of scc_find
\* lists every vertex id in exactly one component, exactly once, and the
\* component sizes sum to num_vertices.
C2_FindReturnsPartition ==
    (op.name = "scc_find" /\ graph.num_vertices >= 1)
    => /\ op.ret # NULL
       /\ IsPartition(graph, op.ret)

\* C3: the results of scc_find_tarjan and scc_find_kosaraju on one graph
\* group the vertices alike and have the same number of components.
C3_EnginesAgree ==
    (tarjan_result # NULL /\ kosaraju_result # NULL)
    => /\ \A u \in Vertices(graph), v \in Vertices(graph) :
             SameComponent(tarjan_result, u, v) <=> SameComponent(kosaraju_result, u, v)
       /\ tarjan_result.num_components = kosaraju_result.num_components

C5_StronglyConnectedAnswer ==
    op.name = "scc_is_strongly_connected"
    => (op.ret <=> /\ graph.num_vertices >= 1
                   /\ \A u \in Vertices(graph), v \in Vertices(graph) :
                         Reaches(graph, u, v))

\* C6: with r = scc_find(G), scc_build_condensation_graph(G, r) succeeds and
\* scc_find of the condensation has r.num_components components of size 1.
C6_CondensationOfSingletons ==
    /\ (op.name = "scc_build_condensation_graph" /\ op.scc = "result")
       => op.ret # NULL
    /\ (op.name = "scc_find_condensed" /\ condensed.scc = "result")
       => /\ op.ret # NULL
          /\ op.ret.num_components = result.num_components
          /\ \A c \in Components(op.ret) : op.ret.components[c].size = 1

\* C7: with r = scc_find(G), the graph scc_build_condensation_graph(G, r)
\* returns has no directed cycle and no self-loop.
C7_CondensationAcyclic ==
    (/\ op.name = "scc_build_condensation_graph"
     /\ op.scc = "result"
     /\ op.ret # NULL)
    => ~HasCycle(op.ret)

\* C8: scc_build_condensation_graph(G, r) returns a graph of
\* r.num_components vertices with the edge a -> b exactly once when a # b
\* and some edge of G leads from component a to component b, and not
\* otherwise.
C8_CondensationEdges ==
    op.name = "scc_build_condensation_graph"
    => /\ op.ret # NULL
       /\ op.ret.num_vertices = Held(op.scc).num_components
       /\ \A a \in Components(Held(op.scc)), b \in Components(Held(op.scc)) :
             Cardinality({i \in 1..Len(op.ret.vertices[a].edges) :
                             op.ret.vertices[a].edges[i] = b})
               = IF /\ a # b
                    /\ \E u \in Vertices(graph), v \in Vertices(graph) :
                          /\ Edge(graph, u, v)
                          /\ Held(op.scc).vertex_to_component[u] = a
                          /\ Held(op.scc).vertex_to_component[v] = b
                 THEN 1 ELSE 0

\* C10: a call of scc_find_tarjan or scc_find_kosaraju leaves every field
\* of the graph and of its vertices as it was.
C10_EnginesLeaveGraphUnchanged ==
    [][op'.name \in {"scc_find_tarjan", "scc_find_kosaraju"} => graph' = graph]_vars

\* C9: when two engine runs (any mix of scc_find_tarjan and
\* scc_find_kosaraju) execute concurrently on one graph that nobody mutates,
\* each run, under every interleaving of their steps, returns the result it
\* returns when run alone.
C9_ParallelRunsReturnAloneResult ==
    \A t \in DOMAIN runs :
        /\ runs[t].pc # "undefined"
        /\ runs[t].pc = "done" => runs[t].result = RunAlone(runs[t])

\* C11: in the result of every engine call, vertex_to_component and the
\* component vertex lists are inverse views: every vertex of the graph has
\* vertex_to_component in [0, num_components), and vertex_to_component[v] = c
\* exactly when v is listed in components[c].
C11_VertexToComponentInverse ==
    (op.name \in {"scc_find", "scc_find_tarjan", "scc_find_kosaraju"} /\ op.ret # NULL) =>
        \A v \in Vertices(graph) :
            /\ op.ret.vertex_to_component[v] \in Components(op.ret)
            /\ \A c \in Components(op.ret) :
                  op.ret.vertex_to_component[v] = c <=> v \in ComponentVertices(op.ret, c)

RECURSIVE out_degree_sum(_, _)
\* the sum of out_degree over the vertices i.. of g
out_degree_sum(g, i) ==
    IF i >= g.num_vertices THEN 0
    ELSE g.vertices[i].out_degree + out_degree_sum(g, i + 1)

\* C12: after any sequence of graph_add_vertex, graph_add_edge and
\* graph_remove_edge calls, succeeding or failing, num_edges is the sum of
\* out_degree over all vertices and each vertex's out_degree is the length
\* of its edge list.
C12_EdgeCountsAgree ==
    /\ graph.num_edges = out_degree_sum(graph, 0)
    /\ \A v \in Vertices(graph) :
          graph.vertices[v].out_degree = Len(graph.vertices[v].edges)

\* an edge has been removed from a full graph that keeps another edge
C12_Witness ==
    /\ op.name = "graph_remove_edge"
    /\ op.ret = SCC_SUCCESS
    /\ graph.num_vertices = GraphVertices
    /\ graph.num_edges = GraphEdges - 1
    /\ \E v \in Vertices(graph) : graph.vertices[v].out_degree = 1

\* C13: after any sequence of graph_create, graph_add_vertex, graph_resize,
\* graph_add_edge and graph_remove_edge calls, capacity >= num_vertices and
\* every vertex slot in [0, num_vertices) lies inside the allocated vertex
\* table.
C13_CapacityCoversVertices ==
    /\ graph.capacity >= graph.num_vertices
    /\ graph.allocated >= graph.num_vertices

\* C14: graph_remove_edge(g, src, dst) with valid indices on a graph that has
\* no edge src -> dst returns an error tag of its own, different from success
\* and from every other error kind (InvalidParameter included), and leaves
\* num_edges unchanged.
C14_RemoveMissingEdgeReportsEdgeNotFound ==
    [][(/\ op'.name = "graph_remove_edge"
        /\ ~op'.args.null
        /\ op'.args.src \in Vertices(graph)
        /\ op'.args.dest \in Vertices(graph)
        /\ ~graph_has_edge(graph, op'.args.src, op'.args.dest))
       => /\ op'.ret # SCC_SUCCESS
          /\ op'.ret \notin ErrorKinds
          /\ graph'.num_edges = graph.num_edges]_vars

\* C15: a graph_add_vertex, graph_add_edge or graph_remove_edge call that
\* returns an error (invalid index, duplicate edge, missing edge, or a failed
\* allocation at any point of the call) leaves num_vertices, capacity,
\* num_edges and every vertex's edge list and out_degree as before the call.
C15_FailedMutationLeavesGraph ==
    [][(/\ op'.name \in {"graph_add_vertex", "graph_add_edge", "graph_remove_edge"}
        /\ ~op'.args.null
        /\ op'.ret < 0)
       => /\ graph'.num_vertices = graph.num_vertices
          /\ graph'.capacity = graph.capacity
          /\ graph'.num_edges = graph.num_edges
          /\ EdgesOf(graph') = EdgesOf(graph)
          /\ \A v \in Vertices(graph) :
                graph'.vertices[v].out_degree = graph.vertices[v].out_degree]_vars

\* the call recorded in o succeeded: it returned a result or a graph, not a
\* null handle, or it is a call whose every return value is an answer
Succeeded(o) ==
    IF o.name \in {"scc_find", "scc_find_tarjan", "scc_find_kosaraju",
                   "scc_find_condensed", "scc_build_condensation_graph"}
    THEN o.ret # NULL
    ELSE o.name \in {"scc_is_strongly_connected", "scc_result_destroy", "graph_destroy"}

\* C16: a public operation that succeeds leaves the last-error slot as it
\* was before the call.
C16_SuccessKeepsLastError ==
    [][Succeeded(op') => last_error' = last_error]_vars

\* C17: whenever a call fails, the tag of the failure is in the last-error
\* slot right after the call: a call that returns its error tag leaves that
\* tag in the slot, and a call that fails with a bare negative value leaves
\* an error tag in the slot.
C17_FailureRecordedInLastError ==
    /\ (/\ op.name \in {"graph_add_edge", "graph_remove_edge", "graph_resize",
                        "graph_verify_integrity"}
        /\ op.ret < 0)
       => last_error = op.ret
    /\ (/\ op.name \in {"graph_add_vertex", "graph_get_out_degree"}
        /\ op.ret < 0)
       => last_error \in ErrorKinds

\* C18: every call that fails because its graph argument is null reports
\* NullPointer and no other kind: the tag it returns, or, where it returns a
\* bare negative value, the tag it records, is SCC_ERROR_NULL_POINTER; so
\* graph_resize(NULL, n) returns SCC_ERROR_NULL_POINTER.
C18_NullArgumentReportsNullPointer ==
    /\ (/\ op.name \in {"graph_add_edge", "graph_remove_edge", "graph_resize",
                        "graph_verify_integrity"}
        /\ op.args.null)
       => op.ret = SCC_ERROR_NULL_POINTER
    /\ (/\ op.name \in {"graph_add_vertex", "graph_get_out_degree"}
        /\ op.args.null)
       => (op.ret < 0 /\ last_error = SCC_ERROR_NULL_POINTER)

\* C19: on a result, scc_get_component_size(r, c) for c outside
\* [0, num_components) and scc_get_vertex_component(r, v) for v outside
\* [0, num_vertices) return a negative value with an error in the error slot,
\* and the read of vertex_to_component stays inside the array.
C19_AccessorsRejectOutOfRange ==
    /\ (/\ op.name = "scc_get_component_size"
        /\ ~op.args.null
        /\ op.args.component_id \notin Components(kosaraju_result))
       => (op.ret < 0 /\ last_error \in ErrorKinds)
    /\ (/\ op.name = "scc_get_vertex_component"
        /\ ~op.args.null
        /\ op.args.vertex \notin Vertices(graph))
       => (op.ret < 0 /\ last_error \in ErrorKinds /\ ~op.outside)

\* C20: graph_transpose(G) returns a new graph with the vertex count and the
\* edge count of G that has the edge v -> u exactly when G has u -> v, and
\* leaves G as it was; the transpose of that graph has exactly the edges of G.
C20_TransposeReversesEdges ==
    /\ []((op.name = "graph_transpose" /\ ~op.args.null) =>
            /\ op.ret # NULL
            /\ op.ret.num_vertices = op.args.graph.num_vertices
            /\ op.ret.num_edges = op.args.graph.num_edges
            /\ \A u \in Vertices(op.args.graph), v \in Vertices(op.args.graph) :
                  /\ Edge(op.ret, v, u) <=> Edge(op.args.graph, u, v)
                  /\ Edge(graph_transpose(op.ret, last_error), u, v)
                       <=> Edge(op.args.graph, u, v))
    /\ [][op'.name = "graph_transpose" => graph' = graph]_vars

\* a graph with an edge u -> v and no edge v -> u has been transposed
C20_Witness ==
    /\ op.name = "graph_transpose"
    /\ ~op.args.null
    /\ op.args.graph.num_edges = GraphEdges
    /\ \E u \in Vertices(op.args.graph), v \in Vertices(op.args.graph) :
          /\ u # v
          /\ Edge(op.args.graph, u, v)
          /\ ~Edge(op.args.graph, v, u)
          /\ Edge(op.ret, v, u)

\* the edges of g as a set of pairs
EdgeSet(g) == {<<u, v>> \in Vertices(g) \X Vertices(g) : Edge(g, u, v)}

C23_TarjanIdsReverseTopological ==
    (op.name = "scc_find_tarjan" /\ op.ret # NULL)
    => /\ \A u \in Vertices(graph), v \in Vertices(graph) :
             (/\ Edge(graph, u, v)
              /\ op.ret.vertex_to_component[u] # op.ret.vertex_to_component[v])
             => op.ret.vertex_to_component[v] < op.ret.vertex_to_component[u]
       /\ \A u \in ComponentVertices(op.ret, 0), v \in Vertices(graph) :
             Edge(graph, u, v) => v \in ComponentVertices(op.ret, 0)

\* the vertex that pass 1 of the Kosaraju engine finishes last on g
LastFinished(g) ==
    LET first == kosaraju_first_pass(g, 0, kosaraju_state_create(g.num_vertices))
    IN first.finish_order[first.finish_index]

\* C24: in every result of scc_find_kosaraju, component 0 holds the vertex
\* that finished last in pass 1, and no edge enters component 0 from a
\* vertex of another component.
C24_KosarajuFirstComponentIsSource ==
    (op.name = "scc_find_kosaraju" /\ op.ret # NULL)
    => /\ LastFinished(graph) \in ComponentVertices(op.ret, 0)
       /\ op.ret.vertex_to_component[LastFinished(graph)] = 0
       /\ \A u \in Vertices(graph), v \in ComponentVertices(op.ret, 0) :
             Edge(graph, u, v) => u \in ComponentVertices(op.ret, 0)

\* a Kosaraju result of several components on a graph where an edge leaves
\* component 0 and the last finished vertex is not vertex 0
C24_Witness ==
    /\ op.name = "scc_find_kosaraju"
    /\ op.ret # NULL
    /\ op.ret.num_components >= 2
    /\ LastFinished(graph) # 0
    /\ \E u \in ComponentVertices(op.ret, 0), v \in Vertices(graph) :
          Edge(graph, u, v) /\ v \notin ComponentVertices(op.ret, 0)

RECURSIVE EdgesFrom(_, _)
\* the edges of g from vertex v on: by source vertex, each vertex's edges in
\* the order of its list
EdgesFrom(g, v) ==
    IF v >= g.num_vertices THEN <<>>
    ELSE [i \in 1..Len(g.vertices[v].edges) |-> <<v, g.vertices[v].edges[i]>>]
         \o EdgesFrom(g, v + 1)

\* C25: on a graph that is not changed meanwhile, the calls of
\* graph_edge_iterator_next on a fresh iterator hand out every edge once, by
\* source vertex and in list order, and then return false; after
\* graph_edge_iterator_reset they hand out the same sequence again.
C25_IteratorYieldsEveryEdgeOnce ==
    iter # NULL
    => /\ yielded = SubSeq(EdgesFrom(graph, 0), 1, Len(yielded))
       /\ (op.name = "graph_edge_iterator_next" /\ op.out /\ ~op.ret)
            => yielded = EdgesFrom(graph, 0)
       /\ (op.name = "graph_edge_iterator_next" /\ op.ret)
            => /\ yielded # <<>>
               /\ Len(yielded) <= Len(EdgesFrom(graph, 0))
       /\ op.name \in {"graph_edge_iterator_create", "graph_edge_iterator_reset"}
            => yielded = <<>>

\* the iterator has handed out the edges of two vertices with an edgeless
\* vertex between them, and the call after the last edge returned false
C25_Witness ==
    /\ iter # NULL
    /\ op.name = "graph_edge_iterator_next"
    /\ op.out
    /\ ~op.ret
    /\ Len(yielded) = 3
    /\ yielded[1][1] = 0
    /\ yielded[3][1] = 2
    /\ graph.vertices[1].edges = <<>>

\* C26: a vertex with a self-loop that is mutually reachable with no other
\* vertex is a component of size 1 in the result of scc_find, whatever other
\* edges enter or leave it.
C26_SelfLoopIsSingleton ==
    (op.name = "scc_find" /\ graph.num_vertices >= 1)
    => /\ op.ret # NULL
       /\ \A v \in Vertices(graph) :
             (/\ Edge(graph, v, v)
              /\ \A u \in Vertices(graph) \ {v} : ~MutuallyReachable(graph, u, v))
             => \E c \in Components(op.ret) :
                   /\ op.ret.components[c].size = 1
                   /\ ComponentVertices(op.ret, c) = {v}

\* C27: every block an engine run allocated is released once the run has
\* returned and its result, if it returned one, was passed to
\* scc_result_destroy: for a result name the client holds nothing under, no
\* block of a run for that name is allocated, whether the run succeeded or
\* an allocation failed in it.
C27_RunsLeaveNoBlock ==
    \A name \in {"tarjan_result", "kosaraju_result"} :
        Held(name) = NULL => \A b \in blocks : b[1] # name

\* C28: at every step of a Tarjan run that has the graph to itself,
\* on_stack of a vertex is true exactly when the vertex is in the engine
\* stack: the flag is set on the push and cleared on the pop into a
\* component.
C28_OnStackMirrorsStack ==
    \A t \in Threads :
        (/\ runs[t].engine = "tarjan"
         /\ runs[t].pc = "scan"
         /\ \A other \in Threads \ {t} : runs[other].engine # "tarjan")
        => \A v \in Vertices(graph) :
              graph.vertices[v].on_stack
                <=> \E k \in 1..runs[t].state.stack_top : runs[t].state.stack[k] = v

\* what graph_copy builds from g: the same vertices and edges, each edge list
\* in the opposite order
CopyOf(g) ==
    copy_all_vertices(
        g, graph_add_vertices(graph_create(g.capacity, SCC_SUCCESS).graph,
                              g.num_vertices, SCC_SUCCESS),
        0, SCC_SUCCESS)

\* C29: the grouping scc_find returns depends on the vertex count and the
\* edge set only: the graph_copy of a graph, which has the same edges with
\* every adjacency list in the opposite order, gets the same partition.
C29_GroupingIgnoresListOrder ==
    (op.name = "scc_find" /\ op.ret # NULL)
    => \A heap \in Heaps(CopyOf(graph)) :
          LET other == scc_find(CopyOf(graph), heap, SCC_SUCCESS).result
          IN /\ other # NULL
             /\ EdgeSet(CopyOf(graph)) = EdgeSet(graph)
             /\ \A u \in Vertices(graph), v \in Vertices(graph) :
                   SameComponent(op.ret, u, v) <=> SameComponent(other, u, v)

\* C30: during graph_dfs, on any graph and from any valid start vertex, the
\* work stack never holds more than num_vertices entries, the size it was
\* allocated with.
C30_DfsStackWithinAllocation ==
    dfs # NULL => Len(dfs.stack) <= graph.num_vertices

====
